---- MODULE Spec2Model ----
(***************************************************************************)
(* Verification model of the qiskit pulse builder (qiskit/pulse/builder.py)*)
(* and of the composite Schedule (qiskit/pulse/schedule/pulse_schedule.py).*)
(*                                                                         *)
(* Spec      : the imperative pulse builder: builds, scopes, DSL calls and *)
(*             the exceptions that travel through them.                    *)
(* SpecSched : insert / append on one Schedule object.                     *)
(***************************************************************************)
EXTENDS Integers, Sequences, FiniteSets, TLC

(***************************************************************************)
(* Bounds of the model.                                                    *)
(***************************************************************************)
\* The objects a run may make: Schedule blocks, and the instructions,
\* schedules and gates handed to the builder.
MaxObjects ==
    6

MaxPulses ==
    3

MaxTime ==
    2

MaxSchedules ==
    2

MaxOverrides ==
    3

MaxAcquires ==
    3

MaxPlays ==
    2

MaxCircuits ==
    2

MaxOps ==
    3

\* The instructions issued through context.py, the list objects it makes
\* and the `with` statements open at one time.
MaxIssued ==
    4

MaxLists ==
    3

MaxDepth ==
    3

(***************************************************************************)
(* State.                                                                  *)
(***************************************************************************)
VARIABLES
    BUILDER_CONTEXTVAR,  \* builder.py:239, 0 when the variable is not set
    builders,            \* the _PulseBuilder objects, by identity 1..Len
    blocks,              \* the blocks (Schedule objects) the builders and
                         \* the scopes made, by identity 1..Len
    frames,              \* the open `with` statements, innermost last
    exc,                 \* the exception in flight, "none" when there is none
    serial,              \* number of instructions, schedules and gates
                         \* handed to a builder so far
    children,            \* Schedule._children (pulse_schedule.py:90)
    err,                 \* what the last Schedule operation raised
    lowered,             \* the last lowering call: its arguments, what it
                         \* raised and the job it returned
    program_schedules,   \* the schedules built so far for lowering
    circuits,            \* the circuits built so far for assembling
    schedule_ctx,        \* context.schedule_ctx: <<>> or <<the schedule>>
    instruction_list_ctx,\* context.instruction_list_ctx: a list object or 0
    instruction_lists,   \* the list objects made by context.py
    target,              \* the mutable Schedule handed to context.build
    ctx_frames,          \* the open `with` statements of context.py
    issued               \* the instructions issued through context.py

vars ==
    <<BUILDER_CONTEXTVAR, builders, blocks, frames, exc, serial,
      children, err, lowered,
      program_schedules, circuits,
      schedule_ctx, instruction_list_ctx, instruction_lists, target,
      ctx_frames, issued>>

contextVars ==
    <<schedule_ctx, instruction_list_ctx, instruction_lists, target,
      ctx_frames, issued>>

builderVars ==
    <<BUILDER_CONTEXTVAR, builders, blocks, frames, exc, serial>>

schedVars ==
    <<children, err>>

lowerVars ==
    <<lowered, program_schedules, circuits>>

\* No lowering call has been made yet.
NotLowered ==
    [by |-> "none", args |-> <<>>, err |-> "none", job |-> <<>>]

NoBuilder ==
    0

(***************************************************************************)
(* Values.  A block holds leaves in append order.  A leaf is what the      *)
(* builder was handed: an Instruction, a called Schedule, or the           *)
(* sub-schedule the external compiler returned for one circuit.  `n` is    *)
(* the serial number of the DSL call that made it, `gates` the serial      *)
(* numbers of the gates of a compiled circuit, `path` the transforms that  *)
(* were applied to it, innermost first.                                    *)
(***************************************************************************)
Instruction(n) ==
    [op |-> "instruction", n |-> n, gates |-> <<>>, path |-> <<>>]

CalledSchedule(n) ==
    [op |-> "schedule", n |-> n, gates |-> <<>>, path |-> <<>>]

\* ShiftPhase(+phase, channel) and ShiftPhase(-phase, channel) of the
\* phase_offset scope opened by DSL call n.
ShiftPhase(sign, n) ==
    [op |-> "shift_phase" \o sign, n |-> n, gates |-> <<>>, path |-> <<>>]

CircuitLeaf(circ) ==
    [op |-> "circuit", n |-> circ[Len(circ)].n,
     gates |-> [i \in DOMAIN circ |-> circ[i].n], path |-> <<>>]

Raise(w, e) ==
    [w EXCEPT !.exc = e]

Raised(w) ==
    w.exc # "none"

\* Schedule.append(x, mutate=True) of the builder's Schedule class.
Schedule_append(content, items) ==
    content \o items

\* transforms.align_left, align_right, align_sequential, group, pad: the
\* block comes back with the transform applied to every leaf.
transform(kind, content) ==
    [i \in DOMAIN content |-> [content[i] EXCEPT !.path = Append(@, kind)]]

\* The duration of a leaf: one time unit for an instruction and for every
\* gate of a compiled circuit, two for a called schedule.
leaf_duration(leaf) ==
    CASE leaf.op = "circuit" -> Len(leaf.gates)
      [] leaf.op = "schedule" -> 2
      [] OTHER -> 1

RECURSIVE total_duration(_)

total_duration(content) ==
    IF content = <<>> THEN 0
    ELSE leaf_duration(content[1]) + total_duration(Tail(content))

\* transforms.align_sequential: one cursor shared by all channels, every
\* leaf starts where the one appended before it ended.
align_sequential(content) ==
    [i \in DOMAIN content |->
        [leaf |-> content[i],
         t0 |-> total_duration(SubSeq(content, 1, i - 1))]]

\* Schedule.instructions: the flat leaf instructions, nesting dropped.
instructions(content) ==
    [i \in DOMAIN content |-> [content[i] EXCEPT !.path = <<>>]]

\* compiler.transpile / compiler.schedule: the external gate-to-pulse
\* compiler rejects a circuit that holds an operation it cannot schedule.
compiler_rejects(circ) ==
    \E i \in DOMAIN circ : circ[i].g = "unschedulable"

(***************************************************************************)
(* _PulseBuilder methods, as functions of the world                        *)
(*   w = [cv, bld, blk, exc, compiled]                                     *)
(* that return the world after the call; w.exc names what the call raised  *)
(* and w.compiled lists the calls of the external compiler made in it:     *)
(* the circuit and the settings each was given.                            *)
(***************************************************************************)
RECURSIVE _compile_lazy_circuit(_, _)

wrapper_without_compile(w, b) ==
    w

_compile_lazy_circuit_before(w, b) ==
    _compile_lazy_circuit(w, b)

_requires_backend(w, b) ==
    ~w.bld[b].backend

new_circuit(w, b) ==
    IF _requires_backend(w, b) THEN Raise(w, "BackendNotSet")
    ELSE [w EXCEPT !.bld[b].lazy = <<>>, !.bld[b].lazy_is_none = FALSE]

set_active_block_before_compile(w, b, block) ==
    _compile_lazy_circuit([w EXCEPT !.bld[b].block = block], b)

set_active_block(w, b, block) ==
    LET w1 == _compile_lazy_circuit_before(w, b)
    IN  IF Raised(w1) THEN w1
        ELSE [w1 EXCEPT !.bld[b].block = block]

PulseBuilder_append_block(w, b, content) ==
    LET w1 == _compile_lazy_circuit_before(w, b)
    IN  IF Raised(w1) THEN w1
        ELSE [w1 EXCEPT !.blk[w1.bld[b].block] = Schedule_append(@, content)]

PulseBuilder_append_instruction(w, b, instruction) ==
    LET w1 == _compile_lazy_circuit_before(w, b)
    IN  IF Raised(w1) THEN w1
        ELSE [w1 EXCEPT !.blk[w1.bld[b].block] =
                            Schedule_append(@, <<instruction>>)]

PulseBuilder_call_schedule(w, b, content) ==
    PulseBuilder_append_block(w, b, content)

\* compiler.transpile(lazy_circuit, backend, **transpiler_settings) and
\* compiler.schedule(..., **circuit_scheduler_settings): the call is noted.
compiler_called(w, b, lazy_circuit) ==
    [w EXCEPT !.compiled =
        Append(@, [builder |-> b, circuit |-> lazy_circuit,
                   transpiler_settings |-> w.bld[b].transpiler_settings,
                   circuit_scheduler_settings |->
                       w.bld[b].circuit_scheduler_settings])]

_compile_lazy_circuit(w, b) ==
    IF w.bld[b].lazy = <<>> THEN w
    ELSE LET lazy_circuit == w.bld[b].lazy
             w1 == new_circuit(w, b)
         IN  IF Raised(w1) THEN w1
             ELSE IF compiler_rejects(lazy_circuit)
             THEN Raise(compiler_called(w1, b, lazy_circuit), "CompilerError")
             ELSE PulseBuilder_call_schedule(
                      compiler_called(w1, b, lazy_circuit), b,
                      <<CircuitLeaf(lazy_circuit)>>)

_call_circuit_prepends(w, b, circ) ==
    LET w1 == IF w.bld[b].lazy_is_none THEN new_circuit(w, b) ELSE w
    IN  IF Raised(w1) THEN w1
        ELSE [w1 EXCEPT !.bld[b].lazy = circ \o @]

_call_circuit(w, b, circ) ==
    LET w1 == IF w.bld[b].lazy_is_none THEN new_circuit(w, b) ELSE w
    IN  IF Raised(w1) THEN w1
        ELSE [w1 EXCEPT !.bld[b].lazy = @ \o circ]

call_circuit_in_one_batch(w, b, circ, lazy) ==
    IF _requires_backend(w, b) THEN Raise(w, "BackendNotSet")
    ELSE IF lazy THEN _call_circuit(w, b, circ)
    ELSE _compile_lazy_circuit(_call_circuit(w, b, circ), b)

PulseBuilder_call_circuit(w, b, circ, lazy) ==
    IF _requires_backend(w, b) THEN Raise(w, "BackendNotSet")
    ELSE IF lazy THEN _call_circuit(w, b, circ)
    ELSE LET w1 == _compile_lazy_circuit(w, b)
         IN  IF Raised(w1) THEN w1
             ELSE _compile_lazy_circuit(_call_circuit(w1, b, circ), b)

PulseBuilder_call_gate(w, b, circ, lazy) ==
    IF _requires_backend(w, b) THEN Raise(w, "BackendNotSet")
    ELSE PulseBuilder_call_circuit(w, b, circ, lazy)

compile(w, b) ==
    LET w1 == _compile_lazy_circuit_before(w, b)
    IN  IF Raised(w1) THEN w1
        ELSE LET program == Schedule_append(w1.bld[b].schedule,
                                            w1.blk[w1.bld[b].block])
                 w2 == [w1 EXCEPT !.bld[b].schedule = program,
                                  !.blk = Append(@, <<>>)]
             IN  set_active_block(w2, b, Len(w2.blk))

PulseBuilder_init(w, backend, schedule, default_alignment) ==
    LET w1 == [w EXCEPT
                 !.blk = Append(@, <<>>),
                 !.bld = Append(@, [backend |-> backend,
                                    token |-> NoBuilder,
                                    block |-> NoBuilder,
                                    lazy |-> <<>>,
                                    lazy_is_none |-> TRUE,
                                    default_alignment |-> default_alignment,
                                    transpiler_settings |-> <<>>,
                                    circuit_scheduler_settings |-> <<>>,
                                    schedule |-> schedule])]
    IN  set_active_block(w1, Len(w1.bld), Len(w1.blk))

(***************************************************************************)
(* Module-level DSL functions.  They act on the builder the context        *)
(* variable names.                                                         *)
(***************************************************************************)
_active_builder(w) ==
    IF w.cv = NoBuilder THEN Raise(w, "NoActiveBuilder") ELSE w

active_backend_unchecked(w) ==
    _active_builder(w)

active_backend(w) ==
    LET w1 == _active_builder(w)
    IN  IF Raised(w1) THEN w1
        ELSE IF ~w1.bld[w1.cv].backend THEN Raise(w1, "BackendNotSet")
        ELSE w1

append_block(w, content) ==
    LET w1 == _active_builder(w)
    IN  IF Raised(w1) THEN w1
        ELSE PulseBuilder_append_block(w1, w1.cv, content)

append_instruction(w, instruction) ==
    LET w1 == _active_builder(w)
    IN  IF Raised(w1) THEN w1
        ELSE PulseBuilder_append_instruction(w1, w1.cv, instruction)

\* num_qubits, qubit_channels, drive_channel, measure_channel,
\* acquire_channel, control_channels, time_to_samples, samples_to_time:
\* a lookup in the configuration of the active backend.
num_qubits(w) ==
    active_backend(w)

\* active_transpiler_settings, active_circuit_scheduler_settings: a copy of
\* the active builder's settings.
active_transpiler_settings(w) ==
    _active_builder(w)

\* delay, play, set_frequency, shift_phase, snapshot: the instruction is
\* made and handed to append_instruction.
play(w, n) ==
    append_instruction(w, Instruction(n))

Registers ==
    {"MemorySlot", "RegisterSlot", "other"}

acquire(w, register, n) ==
    IF register \in {"MemorySlot", "RegisterSlot"}
    THEN append_instruction(w, Instruction(n))
    ELSE Raise(w, "PulseError")

shift_frequency(w) ==
    Raise(w, "NotImplementedError")

set_phase(w) ==
    Raise(w, "NotImplementedError")

call_schedule(w, content) ==
    LET w1 == _active_builder(w)
    IN  IF Raised(w1) THEN w1
        ELSE PulseBuilder_call_schedule(w1, w1.cv, content)

call_circuit(w, circ) ==
    LET w1 == _active_builder(w)
    IN  IF Raised(w1) THEN w1
        ELSE PulseBuilder_call_circuit(w1, w1.cv, circ, TRUE)

call_gate(w, circ, lazy) ==
    LET w1 == _active_builder(w)
    IN  IF Raised(w1) THEN w1
        ELSE PulseBuilder_call_gate(w1, w1.cv, circ, lazy)

\* barrier(*channels_or_qubits): a qubit argument is mapped to its channels
\* by the backend (_qubits_to_channels, qubit_channels).
BarrierArgs ==
    {"channel", "qubit"}

barrier(w, arg, n) ==
    LET w1 == IF arg = "qubit" THEN active_backend(w) ELSE w
    IN  IF Raised(w1) THEN w1
        ELSE append_instruction(w1, Instruction(n))

\* measure, measure_all: the measurement schedule of the backend is called.
measure(w, n) ==
    LET w1 == active_backend(w)
    IN  IF Raised(w1) THEN w1
        ELSE call_schedule(w1, <<CalledSchedule(n)>>)

shift_phase(w, sign, n) ==
    append_instruction(w, ShiftPhase(sign, n))

(***************************************************************************)
(* Contexts.  A frame is an open `with` statement: the builder and the two *)
(* blocks its context manager holds in local variables.                    *)
(***************************************************************************)
TransformKinds ==
    {"align_left", "align_right", "align_sequential", "group", "pad"}

ScopeKinds ==
    TransformKinds \cup {"inline"}

\* build(default_alignment='left') is the default of build.
DefaultAlignments ==
    {"left"}

_align(alignment) ==
    CASE alignment = "left" -> "align_left"
      [] alignment = "right" -> "align_right"
      [] alignment = "sequential" -> "align_sequential"

Frame(w, with) ==
    [with |-> with, b |-> w.cv,
     active_block |-> w.bld[w.cv].block, transform_block |-> Len(w.blk) + 1]

\* wrapped_transform and inline up to the yield.  When set_active_block
\* raises, the new Schedule is referenced by nothing and is collected.
wrapped_transform_enter(w) ==
    LET w1 == _active_builder(w)
    IN  IF Raised(w1) THEN w1
        ELSE LET w2 == [w1 EXCEPT !.blk = Append(@, <<>>)]
                 w3 == set_active_block(w2, w2.cv, Len(w2.blk))
             IN  IF Raised(w3)
                 THEN [w3 EXCEPT !.blk = SubSeq(@, 1, Len(@) - 1)]
                 ELSE w3

\* wrapped_transform, the finally block; `kind` is the transform of the
\* context manager.
wrapped_transform_exit(w, f, kind) ==
    LET w1 == _compile_lazy_circuit(w, f.b)
    IN  IF Raised(w1) THEN w1
        ELSE LET transformed_block ==
                     transform(kind, w1.blk[f.transform_block])
                 w2 == set_active_block(w1, f.b, f.active_block)
             IN  IF Raised(w2) THEN w2
                 ELSE PulseBuilder_append_block(w2, f.b, transformed_block)

RECURSIVE append_each(_, _, _)

append_each(w, instrs, i) ==
    IF i > Len(instrs) THEN w
    ELSE LET w1 == append_instruction(w, instrs[i])
         IN  IF Raised(w1) THEN w1 ELSE append_each(w1, instrs, i + 1)

\* inline, the finally block.
inline_exit(w, f) ==
    LET w1 == _compile_lazy_circuit(w, f.b)
    IN  IF Raised(w1) THEN w1
        ELSE LET w2 == set_active_block(w1, f.b, f.active_block)
             IN  IF Raised(w2) THEN w2
                 ELSE append_each(w2, instructions(w2.blk[f.transform_block]),
                                  1)

PulseBuilder_enter(w, b) ==
    wrapped_transform_enter([w EXCEPT !.bld[b].token = w.cv, !.cv = b])

PulseBuilder_exit(w, f) ==
    LET w1 == _compile_lazy_circuit_before(w, f.b)
    IN  IF Raised(w1) THEN w1
        ELSE LET w2 == wrapped_transform_exit(
                           w1, f, _align(w1.bld[f.b].default_alignment))
             IN  IF Raised(w2) THEN w2
                 ELSE LET w3 == compile(w2, f.b)
                      IN  IF Raised(w3) THEN w3
                          ELSE [w3 EXCEPT !.cv = w3.bld[f.b].token]

\* phase_offset up to the yield, and its finally block.  The generator
\* holds phase and channel, here the serial number n of the scope.
OffsetFrame(n) ==
    [with |-> "phase_offset", n |-> n]

phase_offset_enter(w, n) ==
    shift_phase(w, "+", n)

phase_offset_exit(w, f) ==
    shift_phase(w, "-", f.n)

\* frequency_offset up to the yield.
frequency_offset_enter(w) ==
    LET w1 == _active_builder(w)
    IN  IF Raised(w1) THEN w1
        ELSE shift_frequency(w1)

\* The setters of _PulseBuilder.transpiler_settings and
\* _PulseBuilder.circuit_scheduler_settings: the decorator's flush, the
\* flush of the body, then the assignment.
PulseBuilder_set_transpiler_settings(w, b, settings) ==
    LET w1 == _compile_lazy_circuit(_compile_lazy_circuit_before(w, b), b)
    IN  IF Raised(_compile_lazy_circuit_before(w, b))
        THEN _compile_lazy_circuit_before(w, b)
        ELSE IF Raised(w1) THEN w1
        ELSE [w1 EXCEPT !.bld[b].transpiler_settings = settings]

PulseBuilder_set_circuit_scheduler_settings(w, b, settings) ==
    LET w1 == _compile_lazy_circuit(_compile_lazy_circuit_before(w, b), b)
    IN  IF Raised(_compile_lazy_circuit_before(w, b))
        THEN _compile_lazy_circuit_before(w, b)
        ELSE IF Raised(w1) THEN w1
        ELSE [w1 EXCEPT !.bld[b].circuit_scheduler_settings = settings]

\* collections.ChainMap(settings, curr): the new settings in front of the
\* current ones.
ChainMap(settings, curr) ==
    <<settings>> \o curr

\* The context managers transpiler_settings and circuit_scheduler_settings
\* up to the yield, and their finally blocks.  The generator holds the
\* builder and the settings that were current at entry.
SettingsFrame(w, with) ==
    [with |-> with, b |-> w.cv,
     curr |-> IF with = "transpiler_settings"
              THEN w.bld[w.cv].transpiler_settings
              ELSE w.bld[w.cv].circuit_scheduler_settings]

transpiler_settings_enter(w, settings) ==
    IF Raised(_active_builder(w)) THEN _active_builder(w)
    ELSE PulseBuilder_set_transpiler_settings(
             w, w.cv, ChainMap(settings, w.bld[w.cv].transpiler_settings))

transpiler_settings_exit(w, f) ==
    PulseBuilder_set_transpiler_settings(w, f.b, f.curr)

circuit_scheduler_settings_enter(w, settings) ==
    IF Raised(_active_builder(w)) THEN _active_builder(w)
    ELSE PulseBuilder_set_circuit_scheduler_settings(
             w, w.cv,
             ChainMap(settings, w.bld[w.cv].circuit_scheduler_settings))

circuit_scheduler_settings_exit(w, f) ==
    PulseBuilder_set_circuit_scheduler_settings(w, f.b, f.curr)

\* delay_qubits: the delays of the qubits' channels, inside
\* `with align_left(), group()`.
delay_qubits(w, n) ==
    LET w1 == active_backend(w)
    IN  IF Raised(w1) THEN w1
        ELSE LET f1 == Frame(w1, "scope")
                 w2 == wrapped_transform_enter(w1)
             IN  IF Raised(w2) THEN w2
                 ELSE LET f2 == Frame(w2, "scope")
                          w3 == wrapped_transform_enter(w2)
                          w4 == play(w3, n)
                          w5 == wrapped_transform_exit(w4, f2, "group")
                      IN  wrapped_transform_exit(w5, f1, "align_left")

(***************************************************************************)
(* The builder as a state machine.                                         *)
(***************************************************************************)
W ==
    [cv |-> BUILDER_CONTEXTVAR, bld |-> builders, blk |-> blocks,
     exc |-> "none", compiled |-> <<>>]

Commit(r) ==
    /\ BUILDER_CONTEXTVAR' = r.cv
    /\ builders' = r.bld
    /\ blocks' = r.blk

Top ==
    frames[Len(frames)]

Pop ==
    SubSeq(frames, 1, Len(frames) - 1)

\* A DSL call in the body of the innermost open `with`, or outside any.
\* `makes` tells whether the call hands a new instruction, schedule or gate
\* to the builder.
DSL(makes, r) ==
    /\ exc = "none"
    /\ makes => serial + Len(blocks) < MaxObjects
    /\ serial' = IF makes /\ ~Raised(r) THEN serial + 1 ELSE serial
    /\ Commit(r)
    /\ exc' = r.exc
    /\ UNCHANGED <<frames, schedVars, lowerVars, contextVars>>

OldLeaf ==
    Instruction(0)

GateKinds ==
    {"schedulable", "unschedulable"}

Circuit(g, n) ==
    <<[n |-> n, g |-> g]>>

\* build(schedule=...) builds onto a Schedule that holds an instruction.
RootSchedules ==
    {<<OldLeaf>>}

BuildEnter(backend, alignment, schedule) ==
    /\ exc = "none"
    /\ serial + Len(blocks) + 2 <= MaxObjects
    /\ LET w1 == PulseBuilder_init(W, backend, schedule, alignment)
           b == Len(w1.bld)
           w2 == [w1 EXCEPT !.bld[b].token = w1.cv, !.cv = b]
       IN  /\ Commit(PulseBuilder_enter(w1, b))
           /\ frames' = Append(frames, Frame(w2, "build"))
    /\ UNCHANGED <<exc, serial, schedVars, lowerVars, contextVars>>

BuildExit ==
    /\ frames # <<>>
    /\ Top.with = "build"
    /\ LET r == PulseBuilder_exit(W, Top)
       IN  /\ Commit(r)
           /\ exc' = IF Raised(r) THEN r.exc ELSE exc
    /\ frames' = Pop
    /\ UNCHANGED <<serial, schedVars, lowerVars, contextVars>>

\* Entering align_left, align_right, align_sequential, group, pad or inline:
\* the six context managers run the same statements up to the yield, and
\* which one was called is first looked at in the finally block.
ScopeEnter ==
    /\ exc = "none"
    /\ serial + Len(blocks) < MaxObjects
    /\ LET r == wrapped_transform_enter(W)
       IN  /\ Commit(r)
           /\ exc' = r.exc
           /\ frames' = IF Raised(r) THEN frames
                        ELSE Append(frames, Frame(W, "scope"))
    /\ UNCHANGED <<serial, schedVars, lowerVars, contextVars>>

ScopeExit(kind) ==
    /\ frames # <<>>
    /\ Top.with = "scope"
    /\ LET r == IF kind = "inline" THEN inline_exit(W, Top)
                ELSE wrapped_transform_exit(W, Top, kind)
       IN  /\ Commit(r)
           /\ exc' = IF Raised(r) THEN r.exc ELSE exc
    /\ frames' = Pop
    /\ UNCHANGED <<serial, schedVars, lowerVars, contextVars>>

\* The user's code in the body of a `with` raises.
BodyRaise ==
    /\ exc = "none"
    /\ frames # <<>>
    /\ exc' = "BodyError"
    /\ UNCHANGED <<BUILDER_CONTEXTVAR, builders, blocks, frames, serial,
                   schedVars, lowerVars, contextVars>>

\* The user's code catches the exception (try / except around the
\* statement that raised, or around an enclosing `with`).
Catch ==
    /\ exc # "none"
    /\ exc' = "none"
    /\ UNCHANGED <<BUILDER_CONTEXTVAR, builders, blocks, frames, serial,
                   schedVars, lowerVars, contextVars>>

Play ==
    DSL(TRUE, play(W, serial + 1))

Acquire(register) ==
    DSL(TRUE, acquire(W, register, serial + 1))

Barrier(arg) ==
    DSL(TRUE, barrier(W, arg, serial + 1))

ShiftFrequency ==
    DSL(FALSE, shift_frequency(W))

SetPhase ==
    DSL(FALSE, set_phase(W))

NumQubits ==
    DSL(FALSE, num_qubits(W))

ActiveTranspilerSettings ==
    DSL(FALSE, active_transpiler_settings(W))

Measure ==
    DSL(TRUE, measure(W, serial + 1))

CallSchedule ==
    DSL(TRUE,
        call_schedule(W, <<CalledSchedule(serial + 1)>>))

CallCircuit(g) ==
    DSL(TRUE, call_circuit(W, Circuit(g, serial + 1)))

CallGate(g, lazy) ==
    DSL(TRUE, call_gate(W, Circuit(g, serial + 1), lazy))

DelayQubits ==
    DSL(TRUE, delay_qubits(W, serial + 1))

PhaseOffsetEnter ==
    /\ exc = "none"
    /\ serial + Len(blocks) < MaxObjects
    /\ LET r == phase_offset_enter(W, serial + 1)
       IN  /\ Commit(r)
           /\ exc' = r.exc
           /\ serial' = IF Raised(r) THEN serial ELSE serial + 1
           /\ frames' = IF Raised(r) THEN frames
                        ELSE Append(frames, OffsetFrame(serial + 1))
    /\ UNCHANGED <<schedVars, lowerVars, contextVars>>

PhaseOffsetExit ==
    /\ frames # <<>>
    /\ Top.with = "phase_offset"
    /\ LET r == phase_offset_exit(W, Top)
       IN  /\ Commit(r)
           /\ exc' = IF Raised(r) THEN r.exc ELSE exc
    /\ frames' = Pop
    /\ UNCHANGED <<serial, schedVars, lowerVars, contextVars>>

\* `with frequency_offset(...)`: the generator raises before its yield, the
\* body and the finally block are never run.
FrequencyOffsetEnter ==
    /\ exc = "none"
    /\ LET r == frequency_offset_enter(W)
       IN  /\ Commit(r)
           /\ exc' = r.exc
           /\ frames' = IF Raised(r) THEN frames
                        ELSE Append(frames, OffsetFrame(serial))
    /\ UNCHANGED <<serial, schedVars, lowerVars, contextVars>>

\* `with transpiler_settings(optimization_level=3)` and
\* `with circuit_scheduler_settings(method='alap')`.
SettingsEnter(with) ==
    /\ exc = "none"
    /\ serial + Len(blocks) < MaxObjects
    /\ LET r == IF with = "transpiler_settings"
                THEN transpiler_settings_enter(W, "optimization_level=3")
                ELSE circuit_scheduler_settings_enter(W, "method=alap")
       IN  /\ Commit(r)
           /\ exc' = r.exc
           /\ serial' = IF Raised(r) THEN serial ELSE serial + 1
           /\ frames' = IF Raised(r) THEN frames
                        ELSE Append(frames, SettingsFrame(W, with))
    /\ UNCHANGED <<schedVars, lowerVars, contextVars>>

SettingsExit ==
    /\ frames # <<>>
    /\ Top.with \in {"transpiler_settings", "circuit_scheduler_settings"}
    /\ LET r == IF Top.with = "transpiler_settings"
                THEN transpiler_settings_exit(W, Top)
                ELSE circuit_scheduler_settings_exit(W, Top)
       IN  /\ Commit(r)
           /\ exc' = IF Raised(r) THEN r.exc ELSE exc
    /\ frames' = Pop
    /\ UNCHANGED <<serial, schedVars, lowerVars, contextVars>>

Init ==
    /\ BUILDER_CONTEXTVAR = NoBuilder
    /\ builders = <<>>
    /\ blocks = <<>>
    /\ frames = <<>>
    /\ exc = "none"
    /\ serial = 0
    /\ children = <<>>
    /\ err = "none"
    /\ lowered = NotLowered
    /\ program_schedules = <<>>
    /\ circuits = <<>>
    /\ schedule_ctx = <<>>
    /\ instruction_list_ctx = 0
    /\ instruction_lists = <<>>
    /\ target = <<>>
    /\ ctx_frames = <<>>
    /\ issued = 0

Next ==
    \/ \E backend \in BOOLEAN, alignment \in DefaultAlignments,
          schedule \in RootSchedules :
              BuildEnter(backend, alignment, schedule)
    \/ BuildExit
    \/ ScopeEnter
    \/ \E kind \in ScopeKinds : ScopeExit(kind)
    \/ BodyRaise
    \/ Catch
    \/ Play
    \/ \E register \in Registers : Acquire(register)
    \/ \E arg \in BarrierArgs : Barrier(arg)
    \/ ShiftFrequency
    \/ SetPhase
    \/ NumQubits
    \/ ActiveTranspilerSettings
    \/ Measure
    \/ CallSchedule
    \/ \E g \in GateKinds : CallCircuit(g)
    \/ \E g \in GateKinds, lazy \in BOOLEAN : CallGate(g, lazy)
    \/ DelayQubits

Spec ==
    Init /\ [][Next]_vars

\* Programs made of builds, transform scopes, phase_offset and
\* frequency_offset scopes, plays and gates.
NextOffset ==
    \/ \E backend \in BOOLEAN, alignment \in DefaultAlignments,
          schedule \in RootSchedules :
              BuildEnter(backend, alignment, schedule)
    \/ BuildExit
    \/ ScopeEnter
    \/ \E kind \in ScopeKinds : ScopeExit(kind)
    \/ PhaseOffsetEnter
    \/ PhaseOffsetExit
    \/ FrequencyOffsetEnter
    \/ BodyRaise
    \/ Catch
    \/ Play
    \/ \E g \in GateKinds, lazy \in BOOLEAN : CallGate(g, lazy)

SpecOffset ==
    Init /\ [][NextOffset]_vars

\* Programs made of builds, transform scopes, settings scopes, plays and
\* gates.
NextSettings ==
    \/ \E backend \in BOOLEAN, alignment \in DefaultAlignments,
          schedule \in RootSchedules :
              BuildEnter(backend, alignment, schedule)
    \/ BuildExit
    \/ ScopeEnter
    \/ \E kind \in {"align_left", "inline"} : ScopeExit(kind)
    \/ \E with \in {"transpiler_settings", "circuit_scheduler_settings"} :
           SettingsEnter(with)
    \/ SettingsExit
    \/ BodyRaise
    \/ Catch
    \/ Play
    \/ CallSchedule
    \/ \E g \in GateKinds, lazy \in BOOLEAN : CallGate(g, lazy)

SpecSettings ==
    Init /\ [][NextSettings]_vars

(***************************************************************************)
(* The composite Schedule of pulse_schedule.py: timed pulses on channels.  *)
(***************************************************************************)
\* Command classes, with the duration their objects can have.  A
\* PersistentValue has duration 0 (_persistent_value.py:30).
Commands ==
    [cls : {"SamplePulse"}, duration : 1..2]
        \cup [cls : {"PersistentValue"}, duration : {0}]
        \cup [cls : {"Acquire"}, duration : {1}]

\* A channel is equal to another by class and index; its class lists the
\* command classes it supports.
Channels ==
    {[name |-> "d0", supported |-> {"SamplePulse", "PersistentValue"}],
     [name |-> "d1", supported |-> {"SamplePulse", "PersistentValue"}],
     [name |-> "a0", supported |-> {"Acquire"}]}

TimedPulse_supported(pulse_command, to_channel) ==
    pulse_command.cls \in to_channel.supported

TimedPulse(pulse_command, to_channel, start_time) ==
    [command |-> pulse_command, channel |-> to_channel, t0 |-> start_time]

TimedPulse_start_time(tp) ==
    tp.t0

TimedPulse_end_time(tp) ==
    tp.t0 + tp.command.duration

Max(S, default) ==
    IF S = {} THEN default ELSE CHOOSE x \in S : \A y \in S : y <= x

Min(S, default) ==
    IF S = {} THEN default ELSE CHOOSE x \in S : \A y \in S : x <= y

start_time(ch) ==
    Min({TimedPulse_start_time(ch[i]) : i \in DOMAIN ch}, 0)

end_time(ch) ==
    Max({TimedPulse_end_time(ch[i]) : i \in DOMAIN ch}, 0)

duration(ch) ==
    end_time(ch) - start_time(ch)

\* The end of the occupation of one channel.
end_time_by(ch, channel) ==
    Max({TimedPulse_end_time(ch[i]) :
             i \in {j \in DOMAIN ch : ch[j].channel = channel}} \cup {0}, 0)

flat_pulse_sequence(ch) ==
    ch

occupied_if_start_inside(ch, timed_pulse) ==
    \E i \in DOMAIN flat_pulse_sequence(ch) :
        LET pulse == flat_pulse_sequence(ch)[i]
        IN  /\ pulse.channel = timed_pulse.channel
            /\ TimedPulse_start_time(pulse)
                   <= TimedPulse_start_time(timed_pulse)
            /\ TimedPulse_start_time(timed_pulse) < TimedPulse_end_time(pulse)

_is_occupied_time(ch, timed_pulse) ==
    \E i \in DOMAIN flat_pulse_sequence(ch) :
        LET pulse == flat_pulse_sequence(ch)[i]
        IN  /\ pulse.channel = timed_pulse.channel
            /\ TimedPulse_start_time(pulse) < TimedPulse_end_time(timed_pulse)
            /\ TimedPulse_start_time(timed_pulse) < TimedPulse_end_time(pulse)

add_then_check(ch, block) ==
    IF _is_occupied_time(ch, block)
    THEN [children |-> Append(ch, block), err |-> "ScheduleError"]
    ELSE [children |-> Append(ch, block), err |-> "none"]

_add(ch, block) ==
    IF _is_occupied_time(ch, block)
    THEN [children |-> ch, err |-> "ScheduleError"]
    ELSE [children |-> Append(ch, block), err |-> "none"]

Schedule_insert(ch, t0, command, channel) ==
    IF ~TimedPulse_supported(command, channel)
    THEN [children |-> ch, err |-> "ScheduleError"]
    ELSE _add(ch, TimedPulse(command, channel, t0))

Schedule_append_command(ch, command, channel) ==
    LET t0 == end_time(ch)
    IN  IF ~TimedPulse_supported(command, channel)
        THEN [children |-> ch, err |-> "ScheduleError"]
        ELSE _add(ch, TimedPulse(command, channel, t0))

Insert(t0, command, channel) ==
    /\ Len(children) < MaxPulses
    /\ LET r == Schedule_insert(children, t0, command, channel)
       IN  /\ children' = r.children
           /\ err' = r.err
    /\ UNCHANGED <<builderVars, lowerVars, contextVars>>

AppendCommand(command, channel) ==
    /\ Len(children) < MaxPulses
    /\ LET r == Schedule_append_command(children, command, channel)
       IN  /\ children' = r.children
           /\ err' = r.err
    /\ UNCHANGED <<builderVars, lowerVars, contextVars>>

NextSched ==
    \/ \E t0 \in 0..MaxTime, command \in Commands, channel \in Channels :
           Insert(t0, command, channel)
    \/ \E command \in Commands, channel \in Channels :
           AppendCommand(command, channel)

SpecSched ==
    Init /\ [][NextSched]_vars

(***************************************************************************)
(* Pulse lowering: LowerQobj (pulse/lowering.py) and assemble_schedules    *)
(* (compiler/assembler.py) turn a list of schedules and a list of          *)
(* frequency overrides into a job description.  A call is one step; the    *)
(* variable `lowered` keeps its arguments and its outcome.  Frequencies    *)
(* are counted in MHz, so that Giga, the factor between the run            *)
(* configuration and the job description (1e9 in the code), is 1000.       *)
(***************************************************************************)
Giga ==
    1000

DefaultLo ==
    5 * Giga

\* A user LO dictionary: the frequency it gives the drive channel and the
\* measure channel, 0 where it has no entry for that kind of channel.
LoDicts ==
    {[qubit |-> 6 * Giga, meas |-> 0], [qubit |-> 0, meas |-> 7 * Giga]}

\* The instructions of a schedule.  Every instruction is a record of the
\* same shape: its kind, its name, its channel and, by kind, the samples of
\* the pulse it plays or the duration, the qubit and the memory and
\* register slots of the acquisition (a slot is <<>> where the acquire has
\* none, <<index>> otherwise).
PlayInstruction(samples, name, ch) ==
    [kind |-> "play", name |-> name, samples |-> samples, ch |-> ch,
     duration |-> 1, index |-> 0, mem_slot |-> <<>>, reg_slot |-> <<>>]

DelayInstruction(ch) ==
    [kind |-> "delay", name |-> "delay", samples |-> "", ch |-> ch,
     duration |-> 1, index |-> 0, mem_slot |-> <<>>, reg_slot |-> <<>>]

ShiftPhaseInstruction(ch) ==
    [kind |-> "shift_phase", name |-> "fc", samples |-> "", ch |-> ch,
     duration |-> 0, index |-> 0, mem_slot |-> <<>>, reg_slot |-> <<>>]

AcquireInstruction(acquire_duration, index, mem_slot, reg_slot) ==
    [kind |-> "acquire", name |-> "acquire", samples |-> "",
     ch |-> "a" \o ToString(index), duration |-> acquire_duration,
     index |-> index,
     mem_slot |-> mem_slot, reg_slot |-> reg_slot]

\* The schedules handed to lowering: a name (possibly empty) and the
\* (time, instruction) pairs of Schedule.instructions.
ProgramSchedules ==
    {[name |-> "rabi",
      instructions |-> << <<0, PlayInstruction("gauss", "p1", "d0")>> >>],
     [name |-> "",
      instructions |-> << <<0, DelayInstruction("d0")>>,
                          <<1, PlayInstruction("square", "p2", "d0")>> >>]}

SeqsUpTo(S, n) ==
    UNION {[1..k -> S] : k \in 0..n}

\* hashlib.sha256(samples).hexdigest(): one name per sample list.
sha256(samples) ==
    "sha256:" \o samples

\* converters.InstructionToQobjConverter applied to (time, instruction).
instruction_converter(time, instruction) ==
    [name |-> instruction.name, t0 |-> time, ch |-> instruction.ch]

\* InstructionToQobjConverter.convert_single_acquires: one acquire
\* instruction of the job for a group of acquires.
convert_single_acquires(time, first, qubits, memory_slot, register_slot) ==
    [name |-> "acquire", t0 |-> time, duration |-> first.duration,
     qubits |-> qubits, memory_slot |-> memory_slot,
     register_slot |-> register_slot]

\* instruction.command of an acquire: what two acquires must share, beside
\* their start time, to be sent as one instruction (their duration).
Acquire_command(instruction) ==
    instruction.duration

\* user_pulselib[name] = samples on a dictionary kept in insertion order
\* as a sequence of [name, samples].
dict_set(dict, name, samples) ==
    IF \E i \in DOMAIN dict : dict[i].name = name
    THEN [i \in DOMAIN dict |->
             IF dict[i].name = name
             THEN [name |-> name, samples |-> samples] ELSE dict[i]]
    ELSE Append(dict, [name |-> name, samples |-> samples])

\* acquire_instruction_map[key].append(instruction) on a defaultdict(list)
\* kept in insertion order as a sequence of [key, instrs].  Before it, the
\* variant that opens a group for every acquire.
map_always_new_group(map, key, instruction) ==
    Append(map, [key |-> key, instrs |-> <<instruction>>])

map_append(map, key, instruction) ==
    IF \E i \in DOMAIN map : map[i].key = key
    THEN [i \in DOMAIN map |->
             IF map[i].key = key
             THEN [key |-> key, instrs |-> Append(map[i].instrs, instruction)]
             ELSE map[i]]
    ELSE Append(map, [key |-> key, instrs |-> <<instruction>>])

\* LowerQobj._validate_meas_map: TRUE when it raises.  Before it, the
\* variant that accepts a group covering any one qubit of a device set.
validate_any_qubit_of_set(instruction_map, meas_map) ==
    \E g \in DOMAIN instruction_map :
        LET measured_qubits == {instruction_map[g].instrs[i].index :
                                    i \in DOMAIN instruction_map[g].instrs}
        IN  \E meas_set \in meas_map :
                /\ measured_qubits \cap meas_set # {}
                /\ ~(measured_qubits \subseteq meas_set)

_validate_meas_map(instruction_map, meas_map) ==
    \E g \in DOMAIN instruction_map :
        LET measured_qubits == {instruction_map[g].instrs[i].index :
                                    i \in DOMAIN instruction_map[g].instrs}
        IN  \E meas_set \in meas_map :
                LET intersection == measured_qubits \cap meas_set
                IN  intersection # {} /\ intersection # meas_set

\* The memory (or register) slot indices of the acquires that have one, in
\* the order of the acquires.
RECURSIVE SlotsOf(_, _)
SlotsOf(instrs, field) ==
    IF instrs = <<>> THEN <<>>
    ELSE SlotsOf(SubSeq(instrs, 1, Len(instrs) - 1), field)
             \o (IF field = "mem" THEN instrs[Len(instrs)].mem_slot
                 ELSE instrs[Len(instrs)].reg_slot)

\* LowerQobj._bundle_channel_indices
_bundle_channel_indices(instrs) ==
    [qubits |-> [i \in DOMAIN instrs |-> instrs[i].index],
     mem_slots |-> SlotsOf(instrs, "mem"),
     reg_slots |-> SlotsOf(instrs, "reg")]

\* The key (time, instruction.command) under which an acquire is grouped.
acquire_key_is_time(time, instruction) ==
    <<time, 0>>

acquire_key(time, instruction) ==
    <<time, Acquire_command(instruction)>>

\* The loop of LowerQobj._assemble_instructions over the first n
\* (time, instruction) pairs: the instructions converted so far, the
\* highest memory slot, the acquires grouped by (time, command) and the
\* pulse library.
RECURSIVE assemble_loop(_, _, _)
assemble_loop(instrs, n, user_pulselib) ==
    IF n = 0
    THEN [qobj_instructions |-> <<>>, max_memory_slot |-> 0,
          acquire_instruction_map |-> <<>>, user_pulselib |-> user_pulselib]
    ELSE LET s == assemble_loop(instrs, n - 1, user_pulselib)
             time == instrs[n][1]
             instruction == instrs[n][2]
         IN  IF instruction.kind = "play"
             THEN LET name == sha256(instruction.samples)
                  IN  [s EXCEPT
                          !.qobj_instructions =
                              Append(@, instruction_converter(
                                            time,
                                            [instruction EXCEPT
                                                !.name = name])),
                          !.user_pulselib =
                              dict_set(@, name, instruction.samples)]
             ELSE IF instruction.kind = "acquire"
             THEN [s EXCEPT
                      !.max_memory_slot =
                          IF instruction.mem_slot # <<>>
                             /\ instruction.mem_slot[1] > @
                          THEN instruction.mem_slot[1] ELSE @,
                      !.acquire_instruction_map =
                          map_append(@, acquire_key(time, instruction),
                                     instruction)]
             ELSE IF instruction.kind = "delay"
             THEN s
             ELSE [s EXCEPT
                      !.qobj_instructions =
                          Append(@, instruction_converter(time, instruction))]

\* The end of LowerQobj._assemble_instructions, after its loop left s:
\* the validation of the acquire groups against the measurement map and
\* the acquires appended, one instruction for a group.
acquires_appended(s, meas_map, user_pulselib) ==
    LET map == s.acquire_instruction_map
        acquires ==
            [g \in DOMAIN map |->
                LET b == _bundle_channel_indices(map[g].instrs)
                IN  convert_single_acquires(map[g].key[1], map[g].instrs[1],
                                            b.qubits, b.mem_slots,
                                            b.reg_slots)]
    IN  IF map # <<>> /\ meas_map # <<>>
           /\ _validate_meas_map(map, meas_map[1])
        THEN [err |-> "CompilerError", qobj_instructions |-> <<>>,
              max_memory_slot |-> 0, user_pulselib |-> user_pulselib]
        ELSE [err |-> "none",
              qobj_instructions |-> s.qobj_instructions \o acquires,
              max_memory_slot |-> s.max_memory_slot,
              user_pulselib |-> s.user_pulselib]

\* LowerQobj._assemble_instructions.  meas_map: <<>> when the run
\* configuration has no measurement map, <<the map>> otherwise, the map
\* being the set of the qubit sets to acquire together.  Before it, the
\* variant that converts the delays like any other instruction.
assemble_keeping_delays(schedule, meas_map, user_pulselib) ==
    LET kept == [i \in DOMAIN schedule.instructions |->
                    <<schedule.instructions[i][1],
                      IF schedule.instructions[i][2].kind = "delay"
                      THEN [schedule.instructions[i][2] EXCEPT
                               !.kind = "kept"]
                      ELSE schedule.instructions[i][2]>>]
        s == assemble_loop(kept, Len(kept), user_pulselib)
    IN  [err |-> "none", qobj_instructions |-> s.qobj_instructions,
         max_memory_slot |-> s.max_memory_slot,
         user_pulselib |-> s.user_pulselib]

_assemble_instructions(schedule, meas_map, user_pulselib) ==
    acquires_appended(assemble_loop(schedule.instructions,
                                    Len(schedule.instructions),
                                    user_pulselib),
                      meas_map, user_pulselib)

\* schedule.name or 'Experiment-%d' % idx, idx counted from 0.
experiment_name(schedule, idx) ==
    IF schedule.name # "" THEN schedule.name
    ELSE "Experiment-" \o ToString(idx)

\* LoConfigConverter.get_qubit_los / get_meas_los: the user's frequencies
\* of one kind, nothing when the dictionary has none of that kind.
get_qubit_los(lo_dict) ==
    IF lo_dict.qubit = 0 THEN <<>> ELSE <<lo_dict.qubit>>

get_meas_los(lo_dict) ==
    IF lo_dict.meas = 0 THEN <<>> ELSE <<lo_dict.meas>>

\* LoConfigConverter.__call__: the experiment config of one LO dictionary.
lo_converter(lo_dict) ==
    [qubit_lo_freq |-> [i \in DOMAIN get_qubit_los(lo_dict)
                            |-> get_qubit_los(lo_dict)[i] \div Giga],
     meas_lo_freq |-> [i \in DOMAIN get_meas_los(lo_dict)
                           |-> get_meas_los(lo_dict)[i] \div Giga]]

SeqMax(seq) ==
    CHOOSE m \in {seq[i] : i \in DOMAIN seq} :
        \A i \in DOMAIN seq : seq[i] <= m

\* freq_idx = idx if len(freq_configs) != 1 else 0 (positions from 1),
\* after the variant in which every experiment takes the first config.
freq_idx_always_first(idx, freq_configs) ==
    1

freq_idx(idx, freq_configs) ==
    IF Len(freq_configs) # 1 THEN idx ELSE 1

\* The loop of LowerQobj._assemble_experiments over the first n schedules:
\* the experiments so far and the pulse library they share.  An experiment
\* is [header, instructions, config] with config <<>> when it has none.
\* One turn of that loop after _assemble_instructions returned a for
\* schedule n: the experiment of the schedule appended to those of s.
experiment_appended(s, a, schedules, n, freq_configs) ==
    IF a.err # "none"
    THEN [err |-> a.err, experiments |-> <<>>, user_pulselib |-> <<>>]
    ELSE [err |-> "none",
          experiments |->
              Append(s.experiments,
                     [header |->
                          [memory_slots |-> a.max_memory_slot + 1,
                           name |-> experiment_name(schedules[n], n - 1)],
                      instructions |-> a.qobj_instructions,
                      config |->
                          IF freq_configs # <<>>
                          THEN <<freq_configs[freq_idx(n, freq_configs)]>>
                          ELSE <<>>]),
          user_pulselib |-> a.user_pulselib]

RECURSIVE experiments_loop(_, _, _, _)
experiments_loop(schedules, n, meas_map, freq_configs) ==
    IF n = 0
    THEN [err |-> "none", experiments |-> <<>>, user_pulselib |-> <<>>]
    ELSE LET s == experiments_loop(schedules, n - 1, meas_map, freq_configs)
         IN  IF s.err # "none" THEN s
             ELSE experiment_appended(
                      s,
                      _assemble_instructions(schedules[n], meas_map,
                                             s.user_pulselib),
                      schedules, n, freq_configs)

\* LowerQobj._assemble_experiments around its loop over the schedules,
\* loop being what that loop returns.
experiments_around(schedules, freq_configs, loop) ==
    LET each == loop.experiments
        experiments ==
            IF freq_configs # <<>> /\ Len(each) = 1
            THEN [i \in DOMAIN freq_configs
                      |-> [header |-> each[1].header,
                           instructions |-> each[1].instructions,
                           config |-> <<freq_configs[i]>>]]
            ELSE each
    IN  IF Len(schedules) > 1
           /\ Len(freq_configs) \notin {0, 1, Len(schedules)}
        THEN [err |-> "CompilerError", experiments |-> <<>>,
              experiment_config |-> <<>>]
        ELSE IF loop.err # "none"
        THEN [err |-> loop.err, experiments |-> <<>>,
              experiment_config |-> <<>>]
        ELSE IF experiments = <<>>
        THEN [err |-> "ValueError", experiments |-> <<>>,
              experiment_config |-> <<>>]
        ELSE [err |-> "none", experiments |-> experiments,
              experiment_config |->
                  <<[pulse_library |-> loop.user_pulselib,
                     memory_slots |->
                         SeqMax([i \in DOMAIN experiments
                                     |-> experiments[i].header.memory_slots])]>>]

\* LowerQobj._assemble_experiments
_assemble_experiments(schedules, schedule_los, meas_map) ==
    experiments_around(
        schedules,
        [i \in DOMAIN schedule_los |-> lo_converter(schedule_los[i])],
        experiments_loop(
            schedules, Len(schedules), meas_map,
            [i \in DOMAIN schedule_los |-> lo_converter(schedule_los[i])]))

\* LowerQobj._assemble_config: the run configuration's frequencies in GHz,
\* replaced by those of the override when there is exactly one.
_assemble_config(schedule_los, experiment_config) ==
    LET q_los == IF Len(schedule_los) = 1
                 THEN get_qubit_los(schedule_los[1]) ELSE <<>>
        m_los == IF Len(schedule_los) = 1
                 THEN get_meas_los(schedule_los[1]) ELSE <<>>
    IN  [pulse_library |-> experiment_config.pulse_library,
         memory_slots |-> experiment_config.memory_slots,
         qubit_lo_freq |-> IF q_los # <<>> THEN q_los[1] \div Giga
                           ELSE DefaultLo \div Giga,
         meas_lo_freq |-> IF m_los # <<>> THEN m_los[1] \div Giga
                          ELSE DefaultLo \div Giga]

\* LowerQobj.lower.  qubit_lo_freq, meas_lo_freq: whether the run
\* configuration has the attribute.
LowerQobj_lower(schedules, schedule_los, qubit_lo_freq, meas_lo_freq, meas_map) ==
    IF ~qubit_lo_freq THEN [err |-> "CompilerError", job |-> <<>>]
    ELSE IF ~meas_lo_freq THEN [err |-> "CompilerError", job |-> <<>>]
    ELSE LET a == _assemble_experiments(schedules, schedule_los, meas_map)
         IN  IF a.err # "none" THEN [err |-> a.err, job |-> <<>>]
             ELSE [err |-> "none",
                   job |-> <<[experiments |-> a.experiments,
                              config |-> _assemble_config(
                                             schedule_los,
                                             a.experiment_config[1])]>>]

\* PulseQobjConverter applied to an instruction of
\* schedule.flat_instruction_sequence().
qobj_converter(time, instruction) ==
    [name |-> instruction.name, t0 |-> time, ch |-> instruction.ch]

\* assembler.py _replaced_with_user_los for one channel of each kind.
_replaced_with_user_los(user_lo_dict, default_los, channel_type) ==
    LET user_lo == IF channel_type = "DriveChannel"
                   THEN user_lo_dict.qubit ELSE user_lo_dict.meas
    IN  IF user_lo # 0 THEN user_lo ELSE default_los

\* The lo_configs dictionary assemble_schedules builds for one user LO
\* dictionary: a key is present only where the user's value differs.
lo_configs(user_lo_dict, default_qlos, default_mlos) ==
    LET qlos == _replaced_with_user_los(user_lo_dict, default_qlos,
                                        "DriveChannel")
        mlos == _replaced_with_user_los(user_lo_dict, default_mlos,
                                        "MeasureChannel")
    IN  [qubit_lo_freq |-> IF qlos # default_qlos THEN <<qlos>> ELSE <<>>,
         meas_lo_freq |-> IF mlos # default_mlos THEN <<mlos>> ELSE <<>>]

\* assemble_schedules.  default_qlos, default_mlos: the frequency in
\* dict_config, 0 when the key is absent.  subscriptable: whether the
\* schedule object supports schedules[0]['header'] (its class is not part
\* of these sources); where it does not, the sweep raises TypeError.
assemble_schedules(schedules, user_lo_dicts, default_qlos, default_mlos, subscriptable) ==
    LET qobj_schedules ==
            [idx \in DOMAIN schedules |->
                [header |-> [name |-> experiment_name(schedules[idx],
                                                      idx - 1)],
                 instructions |->
                     [i \in DOMAIN schedules[idx].instructions |->
                         qobj_converter(schedules[idx].instructions[i][1],
                                        schedules[idx].instructions[i][2])]]]
        all_configs ==
            IF default_qlos # 0 /\ default_mlos # 0
            THEN [i \in DOMAIN user_lo_dicts
                      |-> lo_configs(user_lo_dicts[i], default_qlos,
                                     default_mlos)]
            ELSE <<>>
        single == Len(all_configs) = 1
        experiment_configs == IF single THEN <<>> ELSE all_configs
        user_pulselib ==
            UNION {{[name |-> schedules[idx].instructions[i][2].name,
                     samples |-> schedules[idx].instructions[i][2].samples] :
                        i \in {j \in DOMAIN schedules[idx].instructions :
                                  schedules[idx].instructions[j][2].kind
                                      = "play"}} :
                      idx \in DOMAIN schedules}
        dict_config ==
            [pulse_library |-> user_pulselib,
             qubit_lo_freq |->
                 IF single /\ all_configs[1].qubit_lo_freq # <<>>
                 THEN all_configs[1].qubit_lo_freq[1] ELSE default_qlos,
             meas_lo_freq |->
                 IF single /\ all_configs[1].meas_lo_freq # <<>>
                 THEN all_configs[1].meas_lo_freq[1] ELSE default_mlos]
        Job(experiments) ==
            [err |-> "none",
             job |-> <<[experiments |-> experiments,
                        config |-> dict_config]>>]
    IN  IF experiment_configs # <<>>
        THEN IF Len(qobj_schedules) = 1
             THEN IF ~subscriptable
                  THEN [err |-> "TypeError", job |-> <<>>]
                  ELSE Job([i \in DOMAIN experiment_configs |->
                               [header |-> [item |-> "header",
                                            of |-> schedules[1].name],
                                instructions |->
                                    qobj_schedules[1].instructions,
                                config |-> <<experiment_configs[i]>>]])
             ELSE IF Len(qobj_schedules) = Len(experiment_configs)
             THEN Job([i \in DOMAIN qobj_schedules |->
                          [header |-> qobj_schedules[i].header,
                           instructions |-> qobj_schedules[i].instructions,
                           config |-> <<experiment_configs[i]>>]])
             ELSE [err |-> "QiskitError", job |-> <<>>]
        ELSE Job([i \in DOMAIN qobj_schedules |->
                     [header |-> qobj_schedules[i].header,
                      instructions |-> qobj_schedules[i].instructions,
                      config |-> <<>>]])

\* The arguments of a lowering call.
LowerArgs(schedules, los, qubit_lo_freq, meas_lo_freq, meas_map) ==
    [schedules |-> schedules, los |-> los,
     qubit_lo_freq |-> qubit_lo_freq, meas_lo_freq |-> meas_lo_freq,
     meas_map |-> meas_map]

\* LowerQobj(run_config).lower(program).  Nothing is carried from one
\* lowering call to the next (a call reads its arguments only), so a
\* behaviour makes one call.
Lower(schedules, schedule_los, qubit_lo_freq, meas_lo_freq, meas_map) ==
    /\ lowered = NotLowered
    /\ schedules # <<>>
    /\ LET r == LowerQobj_lower(schedules, schedule_los, qubit_lo_freq,
                                meas_lo_freq, meas_map)
       IN  lowered' = [by |-> "LowerQobj",
                       args |-> <<LowerArgs(schedules, schedule_los,
                                            qubit_lo_freq, meas_lo_freq,
                                            meas_map)>>,
                       err |-> r.err, job |-> r.job]
    /\ UNCHANGED <<builderVars, schedVars, contextVars, program_schedules, circuits>>

\* assemble_schedules(schedules, user_lo_dicts, dict_config, dict_header)
AssembleSchedules(schedules, user_lo_dicts, qubit_lo_freq, meas_lo_freq, subscriptable) ==
    /\ lowered = NotLowered
    /\ schedules # <<>>
    /\ LET r == assemble_schedules(
                    schedules, user_lo_dicts,
                    IF qubit_lo_freq THEN DefaultLo ELSE 0,
                    IF meas_lo_freq THEN DefaultLo ELSE 0,
                    subscriptable)
       IN  lowered' = [by |-> "assemble_schedules",
                       args |-> <<LowerArgs(schedules, user_lo_dicts,
                                            qubit_lo_freq, meas_lo_freq,
                                            <<>>)>>,
                       err |-> r.err, job |-> r.job]
    /\ UNCHANGED <<builderVars, schedVars, contextVars, program_schedules, circuits>>

\* A program holds one or more schedules.
Programs ==
    SeqsUpTo(ProgramSchedules, MaxSchedules) \ {<<>>}

NextLower ==
    \/ \E schedules \in Programs,
          schedule_los \in SeqsUpTo(LoDicts, MaxOverrides),
          qubit_lo_freq \in BOOLEAN, meas_lo_freq \in BOOLEAN :
           Lower(schedules, schedule_los, qubit_lo_freq, meas_lo_freq, <<>>)
    \/ \E schedules \in Programs,
          user_lo_dicts \in SeqsUpTo(LoDicts, MaxOverrides),
          qubit_lo_freq \in BOOLEAN, meas_lo_freq \in BOOLEAN,
          subscriptable \in BOOLEAN :
           AssembleSchedules(schedules, user_lo_dicts, qubit_lo_freq,
                             meas_lo_freq, subscriptable)

SpecLower ==
    Init /\ [][NextLower]_vars

(***************************************************************************)
(* The program handed to lowering is built one schedule and one            *)
(* instruction at a time.  Schedule.instructions lists the instructions    *)
(* of a schedule by start time, and a schedule never holds two             *)
(* instructions that overlap on one channel.                               *)
(***************************************************************************)
StartTimes ==
    0..1

Qubits ==
    0..2

AcquireDurations ==
    {1, 2}

\* The measurement map of the run configuration: none, or qubits 0 and 1
\* to be acquired together.
MeasMaps ==
    {<<>>, <<{{0, 1}}>>}

Current ==
    program_schedules[Len(program_schedules)]

\* The number of instructions of the schedules that are (are not) acquires.
RECURSIVE CountKind(_, _)
CountKind(schedules, acquires) ==
    IF schedules = <<>> THEN 0
    ELSE CountKind(SubSeq(schedules, 1, Len(schedules) - 1), acquires)
         + Cardinality({i \in DOMAIN schedules[Len(schedules)].instructions :
                            (schedules[Len(schedules)].instructions[i][2].kind
                                 = "acquire") = acquires})

\* The instruction can be added to the schedule at the time: it comes no
\* earlier than the instructions already there and overlaps none of them
\* on its channel.
Addable(schedule, time, instruction) ==
    \A i \in DOMAIN schedule.instructions :
        LET t == schedule.instructions[i][1]
            other == schedule.instructions[i][2]
        IN  /\ t <= time
            /\ other.ch = instruction.ch
                   => \/ t + other.duration <= time
                      \/ instruction.duration = 0
                      \/ other.duration = 0

NewSchedule(name) ==
    /\ lowered = NotLowered
    /\ Len(program_schedules) < MaxSchedules
    /\ program_schedules' = Append(program_schedules,
                                   [name |-> name, instructions |-> <<>>])
    /\ UNCHANGED <<builderVars, schedVars, contextVars, lowered, circuits>>

AddInstruction(time, instruction) ==
    /\ lowered = NotLowered
    /\ program_schedules # <<>>
    /\ CountKind(program_schedules, instruction.kind = "acquire")
           < (IF instruction.kind = "acquire" THEN MaxAcquires ELSE MaxPlays)
    /\ Addable(Current, time, instruction)
    /\ program_schedules' = [program_schedules EXCEPT
                      ![Len(program_schedules)].instructions =
                          Append(@, <<time, instruction>>)]
    /\ UNCHANGED <<builderVars, schedVars, contextVars, lowered, circuits>>

AddAcquire(time, acquire_duration, index, mem_slot, reg_slot) ==
    /\ mem_slot # <<>> \/ reg_slot # <<>>
    /\ AddInstruction(time, AcquireInstruction(acquire_duration, index,
                                               mem_slot, reg_slot))

AddPlay(time, samples, name) ==
    /\ program_schedules # <<>>
    /\ AddInstruction(time, PlayInstruction(samples, name, "d0"))

AddDelay(time) ==
    /\ program_schedules # <<>>
    /\ AddInstruction(time, DelayInstruction("d0"))

AddShiftPhase(time) ==
    /\ program_schedules # <<>>
    /\ AddInstruction(time, ShiftPhaseInstruction("d0"))

\* One schedule of acquires, lowered with or without a measurement map.
NextAcquire ==
    \/ program_schedules = <<>> /\ NewSchedule("")
    \/ \E time \in StartTimes, acquire_duration \in AcquireDurations,
          index \in Qubits, mem \in BOOLEAN, reg \in BOOLEAN :
           AddAcquire(time, acquire_duration, index,
                      IF mem THEN <<index>> ELSE <<>>,
                      IF reg THEN <<index>> ELSE <<>>)
    \/ \E meas_map \in MeasMaps :
           Lower(program_schedules, <<>>, TRUE, TRUE, meas_map)

SpecAcquire ==
    Init /\ [][NextAcquire]_vars

\* Two pulses built independently with the same samples, and a third with
\* other samples under the name of the first.
Pulses ==
    {<<"gauss", "p1">>, <<"gauss", "p2">>, <<"square", "p1">>}

\* Schedules of plays, delays, phase shifts and an acquire of qubit 0,
\* lowered by LowerQobj or by assemble_schedules.
NextPlay ==
    \/ NewSchedule("")
    \/ \E time \in StartTimes, pulse \in Pulses :
           AddPlay(time, pulse[1], pulse[2])
    \/ \E time \in StartTimes : AddDelay(time)
    \/ \E time \in StartTimes : AddShiftPhase(time)
    \/ AddAcquire(0, 1, 0, <<0>>, <<>>)
    \/ Lower(program_schedules, <<>>, TRUE, TRUE, <<>>)
    \/ AssembleSchedules(program_schedules, <<>>, TRUE, TRUE, TRUE)

SpecPlay ==
    Init /\ [][NextPlay]_vars

(***************************************************************************)
(* Circuit lowering: assemble_circuits (compiler/assembler.py).  A circuit *)
(* is its name, its quantum and classical registers (name and size) and    *)
(* its data, the operations in order.  An operation is its name, its       *)
(* quantum and classical arguments, each a <<register name, bit>>, and     *)
(* its control, <<>> or <<[register, value]>>.                             *)
(***************************************************************************)
HexDigits ==
    <<"0", "1", "2", "3", "4", "5", "6", "7", "8", "9",
      "A", "B", "C", "D", "E", "F">>

\* '%X' % n, the string as the sequence of its characters.
RECURSIVE hex_digits(_)
hex_digits(n) ==
    IF n < 16 THEN <<HexDigits[n + 1]>>
    ELSE Append(hex_digits(n \div 16), HexDigits[(n % 16) + 1])

\* "0x%X" % n
format_hex(n) ==
    <<"0", "x">> \o hex_digits(n)

\* a | b on naturals
RECURSIVE bit_or(_, _)
bit_or(a, b) ==
    IF a = 0 THEN b
    ELSE IF b = 0 THEN a
    ELSE (IF a % 2 = 1 \/ b % 2 = 1 THEN 1 ELSE 0)
         + 2 * bit_or(a \div 2, b \div 2)

\* a << n and a >> n
shift_left(a, n) ==
    a * 2^n

shift_right(a, n) ==
    a \div 2^n

\* The labels [register name, j] of the bits of the registers, in the
\* order of the registers.
RECURSIVE bit_labels(_)
bit_labels(regs) ==
    IF regs = <<>> THEN <<>>
    ELSE bit_labels(SubSeq(regs, 1, Len(regs) - 1))
         \o [j \in 1..regs[Len(regs)].size |-> <<regs[Len(regs)].name, j - 1>>]

size_of_last(regs) ==
    IF regs = <<>> THEN 0 ELSE regs[Len(regs)].size

RECURSIVE total_size(_)
total_size(regs) ==
    IF regs = <<>> THEN 0
    ELSE total_size(SubSeq(regs, 1, Len(regs) - 1)) + regs[Len(regs)].size

\* labels.index(label), counted from 0
label_index(labels, label) ==
    (CHOOSE i \in DOMAIN labels :
         /\ labels[i] = label
         /\ \A j \in 1..(i - 1) : labels[j] # label) - 1

\* any(op.control for (op, qargs, cargs) in circuit.data)
never_conditional(circuit) ==
    FALSE

is_conditional_experiment(circuit) ==
    \E i \in DOMAIN circuit.data : circuit.data[i].control # <<>>

\* The loop over clbit_labels that builds the mask of a condition: the
\* mask after the first n labels.  Before it, the variant that takes the
\* first bit of the register only.
mask_of_first_bit(clbit_labels, n, control) ==
    IF \E i \in 1..n : clbit_labels[i] = <<control.register, 0>>
    THEN shift_left(1, label_index(clbit_labels, <<control.register, 0>>))
    ELSE 0

RECURSIVE condition_mask(_, _, _)
condition_mask(clbit_labels, n, control) ==
    IF n = 0 THEN 0
    ELSE LET mask == condition_mask(clbit_labels, n - 1, control)
             clbit == clbit_labels[n]
         IN  IF clbit[1] = control.register
             THEN bit_or(mask,
                         shift_left(1, label_index(clbit_labels, clbit)))
             ELSE mask

\* The same loop for val, after the variant that leaves out the shift to
\* the flat position.
RECURSIVE val_not_shifted(_, _, _)
val_not_shifted(clbit_labels, n, control) ==
    IF n = 0 THEN 0
    ELSE LET val == val_not_shifted(clbit_labels, n - 1, control)
             clbit == clbit_labels[n]
         IN  IF clbit[1] = control.register
             THEN bit_or(val,
                         shift_left(shift_right(control.value, clbit[2]) % 2,
                                    clbit[2]))
             ELSE val

RECURSIVE condition_val(_, _, _)
condition_val(clbit_labels, n, control) ==
    IF n = 0 THEN 0
    ELSE LET val == condition_val(clbit_labels, n - 1, control)
             clbit == clbit_labels[n]
         IN  IF clbit[1] = control.register
             THEN bit_or(val,
                         shift_left(shift_right(control.value, clbit[2]) % 2,
                                    label_index(clbit_labels, clbit)))
             ELSE val

\* conditional_reg_idx = memory_slots + max_conditional_idx, after the
\* variant that gives every condition the first slot.
conditional_reg_first(memory_slots, max_conditional_idx) ==
    memory_slots

conditional_reg_idx(memory_slots, max_conditional_idx) ==
    memory_slots + max_conditional_idx

\* The loop of assemble_circuits over the first n operations of a
\* circuit: the instructions so far and max_conditional_idx.
RECURSIVE circuit_loop(_, _, _)
circuit_loop(circuit, n, header) ==
    IF n = 0 THEN [instructions |-> <<>>, max_conditional_idx |-> 0]
    ELSE LET s == circuit_loop(circuit, n - 1, header)
             op == circuit.data[n]
             qubit_indices == [i \in DOMAIN op.qargs |->
                                  label_index(header.qubit_labels,
                                              op.qargs[i])]
             clbit_indices == [i \in DOMAIN op.cargs |->
                                  label_index(header.clbit_labels,
                                              op.cargs[i])]
             idx == conditional_reg_idx(header.memory_slots,
                                        s.max_conditional_idx)
             current_instruction ==
                 [name |-> op.name,
                  qubits |-> qubit_indices,
                  memory |-> clbit_indices,
                  register |->
                      IF op.cargs # <<>> /\ op.name = "measure"
                         /\ is_conditional_experiment(circuit)
                      THEN clbit_indices ELSE <<>>,
                  conditional |-> IF op.control # <<>> THEN <<idx>>
                                  ELSE <<>>]
             conversion_bfunc ==
                 [name |-> "bfunc",
                  mask |-> format_hex(
                               condition_mask(header.clbit_labels,
                                              Len(header.clbit_labels),
                                              op.control[1])),
                  relation |-> "==",
                  val |-> format_hex(
                              condition_val(header.clbit_labels,
                                            Len(header.clbit_labels),
                                            op.control[1])),
                  register |-> idx]
         IN  IF op.control # <<>>
             THEN [instructions |->
                       s.instructions
                           \o <<conversion_bfunc, current_instruction>>,
                   max_conditional_idx |-> s.max_conditional_idx + 1]
             ELSE [s EXCEPT !.instructions = Append(@, current_instruction)]

\* The header of the experiment of a circuit.
experimentheader(circuit) ==
    [qubit_labels |-> bit_labels(circuit.qregs),
     n_qubits |-> total_size(circuit.qregs),
     qreg_sizes |-> [i \in DOMAIN circuit.qregs |->
                        <<circuit.qregs[i].name, circuit.qregs[i].size>>],
     clbit_labels |-> bit_labels(circuit.cregs),
     memory_slots |-> total_size(circuit.cregs),
     creg_sizes |-> [i \in DOMAIN circuit.cregs |->
                        <<circuit.cregs[i].name, circuit.cregs[i].size>>],
     name |-> circuit.name]

\* assemble_circuits
assemble_circuits(batch) ==
    LET experiments ==
            [c \in DOMAIN batch |->
                LET header == experimentheader(batch[c])
                IN  [instructions |->
                         circuit_loop(batch[c], Len(batch[c].data),
                                      header).instructions,
                     header |-> header,
                     config |-> [n_qubits |-> header.n_qubits,
                                 memory_slots |-> header.memory_slots]]]
    IN  [experiments |-> experiments,
         config |->
             [memory_slots |->
                  IF batch = <<>> THEN 0
                  ELSE SeqMax([c \in DOMAIN batch |->
                                  experiments[c].header.memory_slots]),
              n_qubits |->
                  IF batch = <<>> THEN 0
                  ELSE SeqMax([c \in DOMAIN batch |->
                                  experiments[c].header.n_qubits])]]

\* The classical registers of a circuit: a register c of 3 bits, alone or
\* after a register a of 2 bits.
CregLayouts ==
    {<<[name |-> "c", size |-> 3]>>,
     <<[name |-> "a", size |-> 2], [name |-> "c", size |-> 3]>>}

\* The conditions put on an operation: (register, value).  The value 5
\* does not fit the two bits of the register a.
Conditions ==
    {[register |-> "c", value |-> 1], [register |-> "c", value |-> 5],
     [register |-> "a", value |-> 5]}

Gate(name, control) ==
    [name |-> name, qargs |-> << <<"q", 0>> >>, cargs |-> <<>>,
     control |-> control]

MeasureOp(control) ==
    [name |-> "measure", qargs |-> << <<"q", 1>> >>,
     cargs |-> << <<"c", 1>> >>, control |-> control]

RECURSIVE CountOps(_)
CountOps(batch) ==
    IF batch = <<>> THEN 0
    ELSE CountOps(SubSeq(batch, 1, Len(batch) - 1))
         + Len(batch[Len(batch)].data)

\* QuantumCircuit(QuantumRegister(2, 'q'), cregs...)
NewCircuit(cregs) ==
    /\ lowered = NotLowered
    /\ Len(circuits) < MaxCircuits
    /\ circuits' = Append(circuits,
                          [name |-> "circuit" \o ToString(Len(circuits)),
                           qregs |-> <<[name |-> "q", size |-> 2]>>,
                           cregs |-> cregs, data |-> <<>>])
    /\ UNCHANGED <<builderVars, schedVars, contextVars, lowered, program_schedules>>

\* circuit.append(op), with or without c_if(register, value)
AddOp(op) ==
    /\ lowered = NotLowered
    /\ circuits # <<>>
    /\ CountOps(circuits) < MaxOps
    /\ op.control # <<>>
           => \E i \in DOMAIN circuits[Len(circuits)].cregs :
                  circuits[Len(circuits)].cregs[i].name
                      = op.control[1].register
    /\ circuits' = [circuits EXCEPT ![Len(circuits)].data = Append(@, op)]
    /\ UNCHANGED <<builderVars, schedVars, contextVars, lowered, program_schedules>>

\* circuit.x(q[0]) and circuit.measure(q[1], c[1]) on the last circuit,
\* with or without c_if.
AddGate(control) ==
    /\ circuits # <<>>
    /\ AddOp(Gate("x", control))

AddMeasure(control) ==
    /\ circuits # <<>>
    /\ AddOp(MeasureOp(control))

\* assemble_circuits(circuits)
AssembleCircuits ==
    /\ lowered = NotLowered
    /\ circuits # <<>>
    /\ lowered' = [by |-> "assemble_circuits",
                   args |-> <<[circuits |-> circuits]>>,
                   err |-> "none",
                   job |-> <<assemble_circuits(circuits)>>]
    /\ UNCHANGED <<builderVars, schedVars, contextVars, program_schedules, circuits>>

NextCircuit ==
    \/ \E cregs \in CregLayouts : NewCircuit(cregs)
    \/ \E control \in {<<>>} \cup {<<c>> : c \in Conditions} :
           AddGate(control)
    \/ \E control \in {<<>>, <<[register |-> "c", value |-> 5]>>} :
           AddMeasure(control)
    \/ AssembleCircuits

SpecCircuit ==
    Init /\ [][NextCircuit]_vars

(***************************************************************************)
(* The context-variable DSL of pulse/context.py.  build, left_barrier and  *)
(* right_barrier are generators: an open `with` keeps their local          *)
(* variables in a frame.  A list object is its index in                    *)
(* instruction_lists, so that two names of one list see the same content.  *)
(* The Schedule handed to build is `target`, its content in append order.  *)
(***************************************************************************)
\* alignment.align_left, alignment.left_barrier and alignment.right_barrier
\* make one schedule of the instructions they are given.
alignment_of(how, instruction_list) ==
    [i \in DOMAIN instruction_list |->
        [n |-> instruction_list[i], by |-> how]]

\* schedule.append(block): the block's instructions at the schedule's end.
context_append(schedule, block) ==
    schedule \o block

CtxTop ==
    ctx_frames[Len(ctx_frames)]

CtxPop ==
    SubSeq(ctx_frames, 1, Len(ctx_frames) - 1)

\* `with build(backend, schedule)` up to the yield.  The programs looked at
\* open one build at a time, each onto the same schedule.
ContextBuildEnter ==
    /\ ctx_frames = <<>>
    /\ Len(instruction_lists) < MaxLists
    /\ schedule_ctx' = <<"schedule">>
    /\ instruction_lists' = Append(instruction_lists, <<>>)
    /\ instruction_list_ctx' = Len(instruction_lists) + 1
    /\ ctx_frames' = Append(ctx_frames,
                            [with |-> "build", token2 |-> schedule_ctx,
                             token3 |-> instruction_list_ctx])
    /\ UNCHANGED <<target, issued, builderVars, schedVars, lowerVars>>

\* The finally block of build.
ContextBuildExit ==
    /\ ctx_frames # <<>>
    /\ CtxTop.with = "build"
    /\ target' = context_append(
                     target,
                     alignment_of("align_left",
                                  instruction_lists[instruction_list_ctx]))
    /\ schedule_ctx' = CtxTop.token2
    /\ instruction_list_ctx' = CtxTop.token3
    /\ ctx_frames' = CtxPop
    /\ UNCHANGED <<instruction_lists, issued, builderVars, schedVars,
                   lowerVars>>

\* `with left_barrier()` up to the yield; outside a build the get() of the
\* context variable raises LookupError and nothing changes.
LeftBarrierEnter ==
    /\ instruction_list_ctx # 0
    /\ Len(ctx_frames) < MaxDepth
    /\ target' = context_append(
                     target,
                     alignment_of("align_left",
                                  instruction_lists[instruction_list_ctx]))
    /\ instruction_lists' =
           [instruction_lists EXCEPT ![instruction_list_ctx] = <<>>]
    /\ ctx_frames' = Append(ctx_frames,
                            [with |-> "left_barrier",
                             instruction_list |-> instruction_list_ctx])
    /\ UNCHANGED <<schedule_ctx, instruction_list_ctx, issued, builderVars,
                   schedVars, lowerVars>>

\* The finally block of left_barrier.
LeftBarrierExit ==
    /\ ctx_frames # <<>>
    /\ CtxTop.with = "left_barrier"
    /\ target' = context_append(
                     target,
                     alignment_of("left_barrier",
                                  instruction_lists[CtxTop.instruction_list]))
    /\ instruction_lists' =
           [instruction_lists EXCEPT ![CtxTop.instruction_list] = <<>>]
    /\ ctx_frames' = CtxPop
    /\ UNCHANGED <<schedule_ctx, instruction_list_ctx, issued, builderVars,
                   schedVars, lowerVars>>

\* `with right_barrier()` up to the yield: the list so far is appended to
\* the schedule and stays as it is, and the context variable is set to a
\* new list.
RightBarrierEnter ==
    /\ instruction_list_ctx # 0
    /\ Len(ctx_frames) < MaxDepth
    /\ Len(instruction_lists) < MaxLists
    /\ target' = context_append(
                     target,
                     alignment_of("align_left",
                                  instruction_lists[instruction_list_ctx]))
    /\ instruction_lists' = Append(instruction_lists, <<>>)
    /\ instruction_list_ctx' = Len(instruction_lists) + 1
    /\ ctx_frames' = Append(ctx_frames,
                            [with |-> "right_barrier",
                             token |-> instruction_list_ctx])
    /\ UNCHANGED <<schedule_ctx, issued, builderVars, schedVars, lowerVars>>

\* The finally block of right_barrier.
RightBarrierExit ==
    /\ ctx_frames # <<>>
    /\ CtxTop.with = "right_barrier"
    /\ target' = context_append(
                     target,
                     alignment_of("right_barrier",
                                  instruction_lists[instruction_list_ctx]))
    /\ instruction_list_ctx' = CtxTop.token
    /\ ctx_frames' = CtxPop
    /\ UNCHANGED <<schedule_ctx, instruction_lists, issued, builderVars,
                   schedVars, lowerVars>>

\* context.play / shift_phase / u1 / u2 / measure: one instruction at the
\* end of the current list.
ContextPlay ==
    /\ instruction_list_ctx # 0
    /\ issued < MaxIssued
    /\ issued' = issued + 1
    /\ instruction_lists' =
           [instruction_lists EXCEPT
               ![instruction_list_ctx] = Append(@, issued + 1)]
    /\ UNCHANGED <<schedule_ctx, instruction_list_ctx, target, ctx_frames,
                   builderVars, schedVars, lowerVars>>

NextContext ==
    \/ ContextBuildEnter
    \/ ContextBuildExit
    \/ LeftBarrierEnter
    \/ LeftBarrierExit
    \/ RightBarrierEnter
    \/ RightBarrierExit
    \/ ContextPlay

SpecContext ==
    Init /\ [][NextContext]_vars

(***************************************************************************)
(* Properties.                                                             *)
(***************************************************************************)
\* The steps of the state machine, recognised from the two states.
BuildExitStep ==
    /\ frames # <<>>
    /\ Top.with = "build"
    /\ frames' = Pop

ScopeExitStep ==
    /\ frames # <<>>
    /\ Top.with = "scope"
    /\ frames' = Pop

ScopeEnterStep ==
    /\ Len(frames') = Len(frames) + 1
    /\ frames'[Len(frames')].with = "scope"

\* A raw instruction was appended with success: the active block of the
\* ambient builder now ends with the instruction made in this step.
RawAppendStep ==
    /\ BUILDER_CONTEXTVAR # NoBuilder
    /\ exc = "none"
    /\ exc' = "none"
    /\ frames' = frames
    /\ serial' = serial + 1
    /\ LET after == blocks'[builders'[BUILDER_CONTEXTVAR].block]
       IN  /\ after # <<>>
           /\ after[Len(after)] = Instruction(serial + 1)

\* C1: when a raw instruction is appended while gates are pending in the
\* lazy circuit, the pending circuit is compiled first and appended to the
\* active block, the instruction comes right after it, and the buffer is
\* empty afterwards.
C1_FlushBeforeInstruction ==
    [][(RawAppendStep /\ builders[BUILDER_CONTEXTVAR].lazy # <<>>)
          => LET b == BUILDER_CONTEXTVAR
                 pending == builders[b].lazy
                 before == blocks[builders[b].block]
                 after == blocks'[builders'[b].block]
             IN  /\ builders'[b].block = builders[b].block
                 /\ builders'[b].lazy = <<>>
                 /\ Len(after) = Len(before) + 2
                 /\ SubSeq(after, 1, Len(before)) = before
                 /\ after[Len(before) + 1].op = "circuit"
                 /\ after[Len(before) + 1].gates
                        = [i \in DOMAIN pending |-> pending[i].n]
                 /\ after[Len(before) + 2].op = "instruction"]_vars

\* A block holds a compiled circuit directly followed by the raw instruction
\* made after its gate, and nothing is left pending.
C1_Witness ==
    \E b \in DOMAIN builders :
        LET blk == blocks[builders[b].block]
        IN  /\ builders[b].lazy = <<>>
            /\ Len(blk) >= 2
            /\ blk[Len(blk) - 1].op = "circuit"
            /\ blk[Len(blk)].op = "instruction"
            /\ blk[Len(blk)].path = <<>>
            /\ blk[Len(blk)].n = blk[Len(blk) - 1].n + 1

\* C2: when the body of a build raises, the exception propagates out of the
\* build and the root schedule receives none of the instructions appended
\* before the error.
C2_NoPartialProgram ==
    [][(BuildExitStep /\ exc # "none")
          => /\ exc' # "none"
             /\ builders'[Top.b].schedule = builders[Top.b].schedule]_vars

\* C3: a transform scope whose exit completes has flushed the pending gates
\* into its own block, transformed that block, restored the parent as the
\* active block and appended the transformed block to the parent.
C3_ScopeExitOrder ==
    [][\A kind \in TransformKinds :
        (/\ ScopeExit(kind)
         /\ ~Raised(wrapped_transform_exit(W, Top, kind)))
          => LET f == Top
                 pending == builders[f.b].lazy
                 own == blocks[f.transform_block]
                 complete == IF pending = <<>> THEN own
                             ELSE Append(own, CircuitLeaf(pending))
             IN  /\ builders'[f.b].block = f.active_block
                 /\ builders'[f.b].lazy = <<>>
                 /\ blocks'[f.active_block]
                        = blocks[f.active_block]
                              \o transform(kind, complete)]_vars

\* C4: entering a scope while gates are pending compiles them and appends
\* them to the parent block; the new block starts empty and becomes the
\* active block.
C4_FlushIntoParentOnEnter ==
    [][ScopeEnterStep
          => LET f == frames'[Len(frames')]
                 pending == builders[f.b].lazy
                 parent == blocks[f.active_block]
             IN  /\ f.active_block = builders[f.b].block
                 /\ blocks'[f.active_block]
                        = IF pending = <<>> THEN parent
                          ELSE Append(parent, CircuitLeaf(pending))
                 /\ blocks'[f.transform_block] = <<>>
                 /\ builders'[f.b].block = f.transform_block
                 /\ builders'[f.b].lazy = <<>>]_vars

\* An open scope whose block is still empty while its parent block ends with
\* the circuit compiled when the scope was entered.
C4_Witness ==
    /\ frames # <<>>
    /\ Top.with = "scope"
    /\ builders[Top.b].block = Top.transform_block
    /\ builders[Top.b].lazy = <<>>
    /\ blocks[Top.transform_block] = <<>>
    /\ blocks[Top.active_block] # <<>>
    /\ LET parent == blocks[Top.active_block]
       IN  /\ parent[Len(parent)].op = "circuit"
           /\ parent[Len(parent)].n = serial

\* The calls of the DSL that are made in the body of a build.
DSLCall ==
    \/ Play
    \/ \E register \in Registers : Acquire(register)
    \/ \E arg \in BarrierArgs : Barrier(arg)
    \/ ShiftFrequency
    \/ SetPhase
    \/ NumQubits
    \/ ActiveTranspilerSettings
    \/ Measure
    \/ CallSchedule
    \/ \E g \in GateKinds : CallCircuit(g)
    \/ \E g \in GateKinds, lazy \in BOOLEAN : CallGate(g, lazy)
    \/ DelayQubits
    \/ ScopeEnter
    \/ PhaseOffsetEnter
    \/ FrequencyOffsetEnter

\* C5: with no build active, every DSL operation fails with NoActiveBuilder
\* and changes no state.
C5_NoActiveBuilder ==
    [][(BUILDER_CONTEXTVAR = NoBuilder /\ DSLCall)
          => /\ exc' = "NoActiveBuilder"
             /\ UNCHANGED <<BUILDER_CONTEXTVAR, builders, blocks, frames>>]_vars

\* The calls that need the target backend.
TargetCall ==
    \/ NumQubits
    \/ Measure
    \/ Barrier("qubit")
    \/ \E g \in GateKinds : CallCircuit(g)
    \/ \E g \in GateKinds, lazy \in BOOLEAN : CallGate(g, lazy)
    \/ DelayQubits

\* C6: in a build opened without a backend, every call that needs the
\* target fails with BackendNotSet and leaves the active block and the
\* pending gate buffer unchanged.
C6_BackendNotSet ==
    [][(/\ BUILDER_CONTEXTVAR # NoBuilder
        /\ ~builders[BUILDER_CONTEXTVAR].backend
        /\ TargetCall)
          => /\ exc' = "BackendNotSet"
             /\ UNCHANGED <<BUILDER_CONTEXTVAR, builders, blocks>>]_vars

\* A call has failed with BackendNotSet in a build without backend whose
\* active block already holds an instruction.
C6_Witness ==
    /\ exc = "BackendNotSet"
    /\ BUILDER_CONTEXTVAR # NoBuilder
    /\ ~builders[BUILDER_CONTEXTVAR].backend
    /\ blocks[builders[BUILDER_CONTEXTVAR].block] # <<>>

\* C7: when a build exits, in whatever way, the ambient builder reference is
\* restored to what it was when the build was entered.
C7_AmbientBuilderRestored ==
    [][BuildExitStep
          => BUILDER_CONTEXTVAR' = builders[Top.b].token]_vars

\* C8: no two timed pulses of non-zero duration on the same channel overlap.
C8_NoOverlap ==
    \A i, j \in DOMAIN children :
        (/\ i < j
         /\ children[i].channel = children[j].channel
         /\ children[i].command.duration > 0
         /\ children[j].command.duration > 0)
            => \/ TimedPulse_end_time(children[i])
                      <= TimedPulse_start_time(children[j])
               \/ TimedPulse_end_time(children[j])
                      <= TimedPulse_start_time(children[i])

\* An insertion has just been refused on a channel that holds two pulses of
\* non-zero duration.
C8_Witness ==
    /\ err = "ScheduleError"
    /\ \E i, j \in DOMAIN children :
           /\ i < j
           /\ children[i].channel = children[j].channel
           /\ children[i].command.duration > 0
           /\ children[j].command.duration > 0

\* C9: an insert or append that fails raises a ScheduleError and leaves the
\* children, the start time, the end time and the duration unchanged.
C9_FailureLeavesScheduleUnchanged ==
    [][err' # "none"
          => /\ err' = "ScheduleError"
             /\ children' = children
             /\ start_time(children') = start_time(children)
             /\ end_time(children') = end_time(children)
             /\ duration(children') = duration(children)]_vars

\* A schedule that holds pulses after a refused insertion.
C9_Witness ==
    /\ err = "ScheduleError"
    /\ children # <<>>
    /\ duration(children) > 0

\* C10: flat_pulse_sequence returns every leaf exactly once, in
\* non-decreasing order of start time.
C10_FlatSequenceSorted ==
    LET flat == flat_pulse_sequence(children)
    IN  /\ Len(flat) = Len(children)
        /\ \A i \in DOMAIN children :
               Cardinality({j \in DOMAIN flat : flat[j] = children[i]})
                   = Cardinality({j \in DOMAIN children :
                                      children[j] = children[i]})
        /\ \A i, j \in DOMAIN flat :
               i < j => TimedPulse_start_time(flat[i])
                            <= TimedPulse_start_time(flat[j])

\* C11: a successful append places the command at the end time of its own
\* channel, whatever is scheduled on the other channels.
C11_AppendAtChannelEnd ==
    [][\A command \in Commands, channel \in Channels :
           (AppendCommand(command, channel) /\ err' = "none")
               => children'[Len(children')].t0
                      = end_time_by(children, channel)]_vars

\* C12: an inline scope whose exit completes appends the instructions that
\* were appended inside it (pending gates compiled first), in order and
\* without a grouping node, directly to the parent block, which is the
\* active block again.
C12_InlineSplicesIntoParent ==
    [][(ScopeExit("inline") /\ ~Raised(inline_exit(W, Top)))
          => LET f == Top
                 pending == builders[f.b].lazy
                 own == blocks[f.transform_block]
                 complete == IF pending = <<>> THEN own
                             ELSE Append(own, CircuitLeaf(pending))
             IN  /\ builders'[f.b].block = f.active_block
                 /\ blocks'[f.active_block]
                        = blocks[f.active_block] \o instructions(complete)]_vars

PhaseOffsetExitStep ==
    /\ frames # <<>>
    /\ Top.with = "phase_offset"
    /\ frames' = Pop

\* C13: when a phase_offset scope exits, whether its body raised or not,
\* the undoing ShiftPhase is the last instruction of the block that holds
\* the ShiftPhase appended on entry.
C13_PhaseOffsetUndone ==
    [][PhaseOffsetExitStep
          => \E k \in DOMAIN blocks' :
                 LET after == blocks'[k]
                 IN  /\ after # <<>>
                     /\ after[Len(after)] = ShiftPhase("-", Top.n)
                     /\ \E i \in 1..(Len(after) - 1) :
                            after[i] = ShiftPhase("+", Top.n)]_vars

\* C14: entering a frequency_offset scope in a build appends the frequency
\* shift to the active block and opens the scope.
C14_FrequencyOffsetEnters ==
    [][(BUILDER_CONTEXTVAR # NoBuilder /\ FrequencyOffsetEnter)
          => /\ exc' = "none"
             /\ Len(frames') = Len(frames) + 1
             /\ Len(blocks'[builders'[BUILDER_CONTEXTVAR].block])
                    = Len(blocks[builders[BUILDER_CONTEXTVAR].block]) + 1]_vars

\* C15: a successful call_gate / call_circuit with lazy=False first flushes
\* the pending gates as their own batch, then compiles the given circuit
\* alone and appends it to the active block, and leaves the buffer empty;
\* with lazy=True it only extends the buffer and appends nothing.
C15_ImmediateOrLazy ==
    [][\A g \in GateKinds, lazy \in BOOLEAN :
        (/\ BUILDER_CONTEXTVAR # NoBuilder
         /\ CallGate(g, lazy)
         /\ exc' = "none")
          => LET b == BUILDER_CONTEXTVAR
                 pending == builders[b].lazy
                 circ == Circuit(g, serial + 1)
                 before == blocks[builders[b].block]
                 after == blocks'[builders'[b].block]
                 flushed == IF pending = <<>> THEN <<>>
                            ELSE <<CircuitLeaf(pending)>>
             IN  /\ builders'[b].block = builders[b].block
                 /\ IF lazy
                    THEN /\ builders'[b].lazy = pending \o circ
                         /\ blocks' = blocks
                    ELSE /\ builders'[b].lazy = <<>>
                         /\ after = before \o flushed
                                       \o <<CircuitLeaf(circ)>>]_vars

\* The active block ends with two compiled circuits of one gate each, the
\* second one made by the last call, and nothing is pending.
C15_Witness ==
    /\ BUILDER_CONTEXTVAR # NoBuilder
    /\ exc = "none"
    /\ builders[BUILDER_CONTEXTVAR].lazy = <<>>
    /\ LET blk == blocks[builders[BUILDER_CONTEXTVAR].block]
       IN  /\ Len(blk) >= 2
           /\ blk[Len(blk) - 1].op = "circuit"
           /\ blk[Len(blk)].op = "circuit"
           /\ blk[Len(blk)].gates = <<serial>>
           /\ blk[Len(blk) - 1].gates = <<serial - 1>>

\* C16: when an align_sequential scope exits, every instruction of the
\* scope (pending gates included) is in the block the scope appends to its
\* parent, each one starts where the one before it ended, and the duration
\* of the scope is the sum of the durations of its instructions.
C16_SequentialAlignment ==
    [][(/\ ScopeExit("align_sequential")
        /\ ~Raised(wrapped_transform_exit(W, Top, "align_sequential")))
          => LET f == Top
                 pending == builders[f.b].lazy
                 own == blocks[f.transform_block]
                 scope == IF pending = <<>> THEN own
                          ELSE Append(own, CircuitLeaf(pending))
                 before == blocks[f.active_block]
                 after == blocks'[f.active_block]
                 aligned == align_sequential(
                                SubSeq(after, Len(before) + 1, Len(after)))
             IN  /\ Len(aligned) = Len(scope)
                 /\ \A i \in DOMAIN aligned :
                        /\ aligned[i].leaf.n = scope[i].n
                        /\ aligned[i].leaf.op = scope[i].op
                        /\ i > 1 =>
                               aligned[i].t0
                                   = aligned[i - 1].t0
                                       + leaf_duration(aligned[i - 1].leaf)
                 /\ total_duration(SubSeq(after, Len(before) + 1, Len(after)))
                        = total_duration(scope)]_vars

\* What the claims about lowering speak of: a lowering call has been made
\* with both default LO frequencies supplied.
ConfigErrors ==
    {"CompilerError", "QiskitError"}

LoweredWithDefaults ==
    /\ lowered.by # "none"
    /\ lowered.args[1].qubit_lo_freq
    /\ lowered.args[1].meas_lo_freq

NumSchedules ==
    Len(lowered.args[1].schedules)

NumOverrides ==
    Len(lowered.args[1].los)

\* C17: with the default LO frequencies supplied, lowering fails with a
\* configuration error and produces no job exactly when there is more than
\* one schedule and the number of frequency overrides is none of 0, 1 and
\* the number of schedules; every other combination of schedule count and
\* override count is accepted and produces a job.
C17_OverrideCountChecked ==
    LoweredWithDefaults
        => IF NumSchedules > 1
              /\ NumOverrides \notin {0, 1, NumSchedules}
           THEN lowered.err \in ConfigErrors /\ lowered.job = <<>>
           ELSE lowered.err = "none" /\ lowered.job # <<>>

\* The experiment config an override becomes in the call that was made.
ConfigOf(lo_dict) ==
    IF lowered.by = "LowerQobj" THEN lo_converter(lo_dict)
    ELSE lo_configs(lo_dict, DefaultLo, DefaultLo)

\* C18: lowering one schedule with M >= 2 frequency overrides, the default
\* LO frequencies supplied, yields exactly M experiments that all carry the
\* same instruction list and the same header, the i-th experiment carrying
\* the i-th override as its config.
C18_FrequencySweep ==
    (LoweredWithDefaults /\ NumSchedules = 1 /\ NumOverrides >= 2)
        => /\ lowered.job # <<>>
           /\ LET experiments == lowered.job[1].experiments
              IN  /\ Len(experiments) = NumOverrides
                  /\ \A i \in DOMAIN experiments :
                         /\ experiments[i].instructions
                                = experiments[1].instructions
                         /\ experiments[i].header = experiments[1].header
                         /\ experiments[i].config
                                = <<ConfigOf(lowered.args[1].los[i])>>

\* The instruction list a schedule becomes in the call that was made.
InstructionsOf(schedule) ==
    IF lowered.by = "LowerQobj"
    THEN _assemble_instructions(schedule, <<>>, <<>>).qobj_instructions
    ELSE [i \in DOMAIN schedule.instructions |->
             qobj_converter(schedule.instructions[i][1],
                            schedule.instructions[i][2])]

\* An experiment of the job uses the override: it carries the override as
\* its config, or it carries no config of its own and the frequencies of
\* the job's configuration are those of the override.
UsesOverride(job, experiment, lo_dict) ==
    \/ experiment.config = <<ConfigOf(lo_dict)>>
    \/ /\ experiment.config = <<>>
       /\ job.config.qubit_lo_freq
              = _replaced_with_user_los(lo_dict, DefaultLo, "DriveChannel")
       /\ job.config.meas_lo_freq
              = _replaced_with_user_los(lo_dict, DefaultLo, "MeasureChannel")

\* C19: lowering N >= 2 schedules with 0, 1 or N overrides, the default LO
\* frequencies supplied, yields exactly N experiments in input order,
\* experiment i holding the instructions of schedule i; with N overrides
\* experiment i carries override i, with a single override every
\* experiment uses that override, and with no override no experiment
\* carries a frequency config.
C19_OneExperimentPerSchedule ==
    (LoweredWithDefaults /\ NumSchedules >= 2
         /\ NumOverrides \in {0, 1, NumSchedules})
        => /\ lowered.job # <<>>
           /\ LET job == lowered.job[1]
                  schedules == lowered.args[1].schedules
                  los == lowered.args[1].los
              IN  /\ Len(job.experiments) = NumSchedules
                  /\ \A i \in DOMAIN job.experiments :
                         /\ job.experiments[i].instructions
                                = InstructionsOf(schedules[i])
                         /\ NumOverrides = NumSchedules
                                => job.experiments[i].config
                                       = <<ConfigOf(los[i])>>
                         /\ NumOverrides = 1
                                => UsesOverride(job, job.experiments[i],
                                                los[1])
                         /\ NumOverrides = 0
                                => job.experiments[i].config = <<>>

\* Two different schedules were lowered with two different overrides.
C19_Witness ==
    /\ LoweredWithDefaults
    /\ NumSchedules >= 2
    /\ NumOverrides = NumSchedules
    /\ lowered.job # <<>>
    /\ lowered.args[1].schedules[1] # lowered.args[1].schedules[2]
    /\ lowered.args[1].los[1] # lowered.args[1].los[2]

\* C20: lowering schedules when the default qubit or the default
\* measurement LO frequencies are not supplied fails with a configuration
\* error and produces no job description.
C20_DefaultFrequenciesRequired ==
    (/\ lowered.by # "none"
     /\ \/ ~lowered.args[1].qubit_lo_freq
        \/ ~lowered.args[1].meas_lo_freq)
        => lowered.err \in ConfigErrors /\ lowered.job = <<>>

\* The acquire groups of a schedule: for every start time and duration at
\* which the schedule acquires, the set of the qubits acquired then.
AcquireGroups(schedule) ==
    LET acquires == {i \in DOMAIN schedule.instructions :
                         schedule.instructions[i][2].kind = "acquire"}
        KeyOf(i) == <<schedule.instructions[i][1],
                      schedule.instructions[i][2].duration>>
    IN  {{schedule.instructions[j][2].index :
              j \in {k \in acquires : KeyOf(k) = KeyOf(i)}} : i \in acquires}

\* Some acquire group of the program meets a device set without holding
\* all of it.
PartialAcquire(schedules, meas_map) ==
    \E n \in DOMAIN schedules :
        \E G \in AcquireGroups(schedules[n]) :
            \E M \in meas_map : G \cap M # {} /\ ~(M \subseteq G)

LoweredByLowerQobj ==
    lowered.by = "LowerQobj" /\ LoweredWithDefaults

\* C21: when a measurement map is configured, LowerQobj fails with a
\* validation error (and returns no job) if and only if some acquire
\* group, the acquires sharing one start time and duration, meets a device
\* set without containing all of it; otherwise the program is lowered.
C21_MeasMapValidated ==
    (LoweredByLowerQobj /\ lowered.args[1].meas_map # <<>>
         /\ lowered.args[1].los = <<>>)
        => IF PartialAcquire(lowered.args[1].schedules,
                             lowered.args[1].meas_map[1])
           THEN lowered.err = "CompilerError" /\ lowered.job = <<>>
           ELSE lowered.err = "none" /\ lowered.job # <<>>

\* Qubit 0 was acquired without qubit 1 under the map {{0, 1}}, and the
\* lowering was refused.
C21_Witness ==
    /\ LoweredByLowerQobj
    /\ lowered.args[1].meas_map = <<{{0, 1}}>>
    /\ {0} \in AcquireGroups(lowered.args[1].schedules[1])
    /\ lowered.err = "CompilerError"

\* The acquire instructions of an experiment of the job.
WireAcquires(experiment) ==
    SelectSeq(experiment.instructions, LAMBDA q : q.name = "acquire")

\* The acquires of a schedule that start at the time and last the
\* duration, in the order of the schedule.
AcquiresAt(schedule, time, length) ==
    LET at == SelectSeq(schedule.instructions,
                        LAMBDA x : /\ x[2].kind = "acquire"
                                   /\ x[1] = time
                                   /\ x[2].duration = length)
    IN  [i \in DOMAIN at |-> at[i][2]]

AcquireKeys(schedule) ==
    {<<schedule.instructions[i][1], schedule.instructions[i][2].duration>> :
         i \in {j \in DOMAIN schedule.instructions :
                    schedule.instructions[j][2].kind = "acquire"}}

\* A program was lowered by LowerQobj into a job.
LoweredJob ==
    LoweredByLowerQobj /\ lowered.err = "none" /\ lowered.job # <<>>

\* C22: an experiment holds exactly one acquire instruction per distinct
\* (start time, duration) of its schedule's acquires, and the channel
\* indices of that instruction are those of the acquires with that start
\* and duration, as many and in the order of the schedule.
C22_OneAcquirePerKey ==
    LoweredJob
        => \A n \in DOMAIN lowered.job[1].experiments :
               LET schedule == lowered.args[1].schedules[n]
                   wire == WireAcquires(lowered.job[1].experiments[n])
               IN  /\ Len(wire) = Cardinality(AcquireKeys(schedule))
                   /\ \A key \in AcquireKeys(schedule) :
                          \E i \in DOMAIN wire :
                              LET group == AcquiresAt(schedule, key[1],
                                                      key[2])
                              IN  /\ wire[i].t0 = key[1]
                                  /\ wire[i].duration = key[2]
                                  /\ wire[i].qubits
                                         = [k \in DOMAIN group
                                                |-> group[k].index]

\* Qubit 1 and then qubit 0 were acquired together, and a second group was
\* acquired apart from them.
C22_Witness ==
    /\ LoweredJob
    /\ \E i \in DOMAIN WireAcquires(lowered.job[1].experiments[1]) :
           WireAcquires(lowered.job[1].experiments[1])[i].qubits = <<1, 0>>
    /\ Len(WireAcquires(lowered.job[1].experiments[1])) = 2

\* The slot array of an acquire instruction of the job is parallel to its
\* channel indices: it is empty, or it has their length and its position i
\* holds the slot of the i-th acquire of the group.
ParallelSlots(slots, group, field) ==
    slots # <<>>
        => /\ Len(slots) = Len(group)
           /\ \A i \in DOMAIN group :
                  (IF field = "mem" THEN group[i].mem_slot
                   ELSE group[i].reg_slot) = <<slots[i]>>

\* C23: in every acquire instruction of the job the memory slot and the
\* register slot arrays are parallel to the channel indices: each populated
\* array has the length of the channel indices and its position i belongs
\* to the same acquire of the schedule as channel index i, whatever mix of
\* memory and register slots the acquires carry.
C23_ParallelSlotArrays ==
    LoweredJob
        => \A n \in DOMAIN lowered.job[1].experiments :
               LET schedule == lowered.args[1].schedules[n]
                   wire == WireAcquires(lowered.job[1].experiments[n])
               IN  \A i \in DOMAIN wire :
                       LET group == AcquiresAt(schedule, wire[i].t0,
                                               wire[i].duration)
                       IN  /\ ParallelSlots(wire[i].memory_slot, group,
                                            "mem")
                           /\ ParallelSlots(wire[i].register_slot, group,
                                            "reg")

\* The instructions of a schedule that the call made converts one by one,
\* in order: all but the delays and the acquires for LowerQobj, all of
\* them for assemble_schedules.
Converted(schedule) ==
    IF lowered.by = "LowerQobj"
    THEN SelectSeq(schedule.instructions,
                   LAMBDA x : x[2].kind \notin {"delay", "acquire"})
    ELSE schedule.instructions

\* The instructions of an experiment that come from them.
WireConverted(experiment) ==
    IF lowered.by = "LowerQobj"
    THEN SelectSeq(experiment.instructions, LAMBDA q : q.name # "acquire")
    ELSE experiment.instructions

\* The entries of the job's pulse library, with the number of them.
LibraryEntries ==
    LET lib == lowered.job[1].config.pulse_library
    IN  IF lowered.by = "LowerQobj" THEN {lib[i] : i \in DOMAIN lib}
        ELSE lib

LibrarySize ==
    LET lib == lowered.job[1].config.pulse_library
    IN  IF lowered.by = "LowerQobj" THEN Len(lib) ELSE Cardinality(lib)

\* C24: the pulse library of a job holds at most one entry per distinct
\* sample vector, each named by the hash of its samples, and every play
\* instruction of every experiment is named by the hash of the samples of
\* the pulse it comes from and finds these samples in the library under
\* that name.
C24_PulseLibraryByContent ==
    (LoweredWithDefaults /\ lowered.err = "none" /\ lowered.job # <<>>
         /\ lowered.args[1].los = <<>>)
        => /\ LibrarySize = Cardinality({e.samples : e \in LibraryEntries})
           /\ \A e \in LibraryEntries : e.name = sha256(e.samples)
           /\ \A n \in DOMAIN lowered.job[1].experiments :
                  LET source == Converted(lowered.args[1].schedules[n])
                      wire == WireConverted(lowered.job[1].experiments[n])
                  IN  /\ Len(wire) = Len(source)
                      /\ \A i \in DOMAIN source :
                             source[i][2].kind = "play"
                                 => /\ wire[i].name
                                           = sha256(source[i][2].samples)
                                    /\ [name |-> wire[i].name,
                                        samples |-> source[i][2].samples]
                                           \in LibraryEntries

\* C25: LowerQobj drops every Delay and nothing else: no instruction of an
\* experiment is a delay, and the instructions of the schedule that are
\* neither delays nor acquires appear in the experiment once each, in the
\* order of the schedule, which is the order of time, each with its start
\* time and its channel.
C25_DelaysDropped ==
    LoweredJob
        => \A n \in DOMAIN lowered.job[1].experiments :
               LET schedule == lowered.args[1].schedules[n]
                   source == SelectSeq(schedule.instructions,
                                       LAMBDA x : x[2].kind
                                                    \notin {"delay",
                                                            "acquire"})
                   experiment == lowered.job[1].experiments[n]
                   wire == WireConverted(experiment)
               IN  /\ \A i \in DOMAIN experiment.instructions :
                          experiment.instructions[i].name # "delay"
                   /\ Len(wire) = Len(source)
                   /\ \A i \in DOMAIN source :
                          /\ wire[i].t0 = source[i][1]
                          /\ wire[i].ch = source[i][2].ch
                          /\ wire[i].name
                                 = IF source[i][2].kind = "play"
                                   THEN sha256(source[i][2].samples)
                                   ELSE source[i][2].name
                   /\ \A i, j \in DOMAIN wire :
                          i <= j => wire[i].t0 <= wire[j].t0

\* A schedule that delays and then plays at time 1 was lowered: the play
\* is the only instruction of the experiment, at time 1.
C25_Witness ==
    /\ LoweredJob
    /\ Len(lowered.args[1].schedules[1].instructions) = 2
    /\ lowered.args[1].schedules[1].instructions[1][2].kind = "delay"
    /\ lowered.args[1].schedules[1].instructions[2][2].kind = "play"
    /\ Len(lowered.job[1].experiments[1].instructions) = 1
    /\ lowered.job[1].experiments[1].instructions[1].t0 = 1

\* The memory slots the acquires of a schedule write.
MemorySlotsWritten(schedule) ==
    {schedule.instructions[i][2].mem_slot[1] :
         i \in {j \in DOMAIN schedule.instructions :
                    /\ schedule.instructions[j][2].kind = "acquire"
                    /\ schedule.instructions[j][2].mem_slot # <<>>}}

\* The number of memory slots a schedule uses.
MemorySlotsUsed(schedule) ==
    IF MemorySlotsWritten(schedule) = {} THEN 0
    ELSE 1 + CHOOSE m \in MemorySlotsWritten(schedule) :
                 \A k \in MemorySlotsWritten(schedule) : k <= m

\* C26: the memory_slots of an experiment's header is the number of memory
\* slots its schedule uses, one more than the highest memory slot an
\* acquire writes and zero when no acquire writes one, and the
\* memory_slots of the job's configuration is the greatest of them.
C26_MemorySlotsUsed ==
    LoweredJob
        => LET experiments == lowered.job[1].experiments
           IN  /\ \A n \in DOMAIN experiments :
                      experiments[n].header.memory_slots
                          = MemorySlotsUsed(lowered.args[1].schedules[n])
               /\ \A n \in DOMAIN experiments :
                      experiments[n].header.memory_slots
                          <= lowered.job[1].config.memory_slots
               /\ \E n \in DOMAIN experiments :
                      experiments[n].header.memory_slots
                          = lowered.job[1].config.memory_slots

\* The batch given to assemble_circuits and the job it returned.
AssembledCircuits ==
    lowered.by = "assemble_circuits"

AssembledBatch ==
    lowered.args[1].circuits

QasmQobj ==
    lowered.job[1]

\* Operation i of the circuit carries a condition.
Conditioned(circuit, i) ==
    circuit.data[i].control # <<>>

\* The number of conditioned operations among the first n.
NumConditioned(circuit, n) ==
    Cardinality({j \in 1..n : Conditioned(circuit, j)})

\* The place of operation i among the instructions of its experiment when
\* one instruction is put before every conditioned operation.
PlaceOf(circuit, i) ==
    i + NumConditioned(circuit, i)

\* C27: in every lowered circuit the instructions are the operations in
\* circuit order with a bfunc immediately before each conditioned one and
\* nowhere else; the bfunc before the conditioned operation that has k
\* conditioned operations before it in its circuit writes register
\* memory_slots + k, the operation's conditional is that same index, and an
\* operation without a condition has no conditional.
C27_ConditionSlots ==
    AssembledCircuits =>
        \A c \in DOMAIN AssembledBatch :
            LET circuit == AssembledBatch[c]
                instrs == QasmQobj.experiments[c].instructions
                slots == total_size(circuit.cregs)
            IN  /\ Len(instrs) = Len(circuit.data)
                                 + NumConditioned(circuit, Len(circuit.data))
                /\ \A i \in DOMAIN circuit.data :
                       LET place == PlaceOf(circuit, i)
                           k == NumConditioned(circuit, i - 1)
                       IN  /\ instrs[place].name = circuit.data[i].name
                           /\ IF Conditioned(circuit, i)
                              THEN /\ instrs[place - 1].name = "bfunc"
                                   /\ instrs[place - 1].register = slots + k
                                   /\ instrs[place].conditional
                                          = <<slots + k>>
                              ELSE instrs[place].conditional = <<>>

\* A batch of two circuits was lowered, the first with two conditioned
\* operations whose slots are memory_slots and memory_slots + 1, the
\* second with a conditioned operation whose slot is its memory_slots.
C27_Witness ==
    /\ AssembledCircuits
    /\ Len(AssembledBatch) = 2
    /\ NumConditioned(AssembledBatch[1], Len(AssembledBatch[1].data)) = 2
    /\ NumConditioned(AssembledBatch[2], Len(AssembledBatch[2].data)) = 1
    /\ LET first == QasmQobj.experiments[1]
           second == QasmQobj.experiments[2]
       IN  /\ first.instructions[1].name = "bfunc"
           /\ first.instructions[1].register = first.header.memory_slots
           /\ first.instructions[3].name = "bfunc"
           /\ first.instructions[3].register
                  = first.header.memory_slots + 1
           /\ second.instructions[1].name = "bfunc"
           /\ second.instructions[1].register = second.header.memory_slots

\* int(digits, 16) of a string written by "0x%X": the number after the
\* prefix 0x.
RECURSIVE parse_digits(_)
parse_digits(digits) ==
    IF digits = <<>> THEN 0
    ELSE 16 * parse_digits(SubSeq(digits, 1, Len(digits) - 1))
         + (CHOOSE d \in 0..15 : HexDigits[d + 1] = digits[Len(digits)])

parse_hex(str) ==
    parse_digits(SubSeq(str, 3, Len(str)))

\* The flat position of bit 0 of the named classical register: the sizes
\* of the registers declared before it.
RegisterOffset(cregs, name) ==
    LET r == CHOOSE i \in DOMAIN cregs : cregs[i].name = name
    IN  total_size(SubSeq(cregs, 1, r - 1))

RegisterSize(cregs, name) ==
    LET r == CHOOSE i \in DOMAIN cregs : cregs[i].name = name
    IN  cregs[r].size

\* The bfunc put before conditioned operation i of circuit c of the batch.
BfuncOf(c, i) ==
    QasmQobj.experiments[c].instructions[PlaceOf(AssembledBatch[c], i) - 1]

\* C28: the bfunc of a condition (register, value) has a mask whose ones
\* are exactly the flat positions of the register's bits, offset up to
\* offset + size - 1, and a val that is the low size bits of the value
\* moved to those positions; both are written as 0x and hexadecimal
\* digits.
C28_MaskAndVal ==
    AssembledCircuits =>
        \A c \in DOMAIN AssembledBatch :
            \A i \in DOMAIN AssembledBatch[c].data :
                Conditioned(AssembledBatch[c], i) =>
                    LET control == AssembledBatch[c].data[i].control[1]
                        cregs == AssembledBatch[c].cregs
                        offset == RegisterOffset(cregs, control.register)
                        size == RegisterSize(cregs, control.register)
                        bfunc == BfuncOf(c, i)
                    IN  /\ SubSeq(bfunc.mask, 1, 2) = <<"0", "x">>
                        /\ SubSeq(bfunc.val, 1, 2) = <<"0", "x">>
                        /\ parse_hex(bfunc.mask) = (2^size - 1) * 2^offset
                        /\ parse_hex(bfunc.val)
                               = (control.value % 2^size) * 2^offset

\* A condition c == 5 on the register c of width 3 declared after the
\* register a of width 2 was lowered: mask 0x1C, the positions 2, 3 and 4,
\* and val 0x14, 5 moved up by 2.
C28_Witness ==
    /\ AssembledCircuits
    /\ \E c \in DOMAIN AssembledBatch :
           \E i \in DOMAIN AssembledBatch[c].data :
               /\ Conditioned(AssembledBatch[c], i)
               /\ AssembledBatch[c].data[i].control[1]
                      = [register |-> "c", value |-> 5]
               /\ RegisterOffset(AssembledBatch[c].cregs, "c") = 2
               /\ BfuncOf(c, i).mask = <<"0", "x", "1", "C">>
               /\ BfuncOf(c, i).val = <<"0", "x", "1", "4">>

\* C29: a lowered measure has register = its memory indices when some
\* operation of its own circuit, before or after it, carries a condition,
\* and has no register otherwise, whatever the other circuits of the batch
\* contain.
C29_MeasureRegister ==
    AssembledCircuits =>
        \A c \in DOMAIN AssembledBatch :
            \A i \in DOMAIN AssembledBatch[c].data :
                AssembledBatch[c].data[i].name = "measure" =>
                    LET circuit == AssembledBatch[c]
                        measured ==
                            QasmQobj.experiments[c]
                                .instructions[PlaceOf(circuit, i)]
                    IN  /\ measured.memory # <<>>
                        /\ IF NumConditioned(circuit, Len(circuit.data)) > 0
                           THEN measured.register = measured.memory
                           ELSE measured.register = <<>>

\* A batch of two circuits was lowered: in the first a measure comes
\* before a conditioned gate and has a register, in the second a measure
\* without any conditioned operation has none.
C29_Witness ==
    /\ AssembledCircuits
    /\ Len(AssembledBatch) = 2
    /\ Len(AssembledBatch[1].data) = 2
    /\ AssembledBatch[1].data[1].name = "measure"
    /\ ~Conditioned(AssembledBatch[1], 1)
    /\ Conditioned(AssembledBatch[1], 2)
    /\ QasmQobj.experiments[1].instructions[1].register # <<>>
    /\ Len(AssembledBatch[2].data) = 1
    /\ AssembledBatch[2].data[1].name = "measure"
    /\ QasmQobj.experiments[2].instructions[1].register = <<>>

\* C30: within one lowered circuit the mask and the val of every bfunc
\* have the same number of hexadecimal digits.
C30_FixedWidthHex ==
    AssembledCircuits =>
        \A c \in DOMAIN AssembledBatch :
            LET instrs == QasmQobj.experiments[c].instructions
                bfuncs == {p \in DOMAIN instrs : instrs[p].name = "bfunc"}
            IN  \A p, q \in bfuncs :
                    /\ Len(instrs[p].mask) = Len(instrs[q].mask)
                    /\ Len(instrs[p].val) = Len(instrs[q].val)
                    /\ Len(instrs[p].mask) = Len(instrs[q].val)

\* C31: when a transform scope or an inline scope exits, with or without
\* an exception, raised by the body or by the flush or the transform of
\* the exit, the builder's active block is the block that was active when
\* the scope was entered.
C31_ScopesAreLifo ==
    [][ScopeExitStep => builders'[Top.b].block = Top.active_block]_vars

\* The serial numbers of the gates of a circuit.
GatesOf(circ) ==
    {circ[i].n : i \in DOMAIN circ}

\* The calls the program can make next, each with the gates it passes:
\* the DSL functions, the entry of a scope or of a build, and the exit of
\* the innermost open `with`.
NextCalls ==
    LET none == <<>>
        Call(r, passed) == [r |-> r, passed |-> passed]
        calls ==
            {Call(play(W, serial + 1), none),
             Call(measure(W, serial + 1), none),
             Call(call_schedule(W, <<CalledSchedule(serial + 1)>>), none),
             Call(delay_qubits(W, serial + 1), none),
             Call(wrapped_transform_enter(W), none)}
            \cup {Call(call_circuit(W, Circuit(g, serial + 1)),
                       Circuit(g, serial + 1)) : g \in GateKinds}
            \cup {Call(call_gate(W, Circuit(c[1], serial + 1), c[2]),
                       Circuit(c[1], serial + 1)) :
                      c \in GateKinds \X BOOLEAN}
            \cup {Call(LET w1 == PulseBuilder_init(W, backend, <<OldLeaf>>,
                                                   "left")
                       IN  PulseBuilder_enter(w1, Len(w1.bld)), none) :
                      backend \in BOOLEAN}
        exits ==
            IF frames = <<>> THEN {}
            ELSE IF Top.with = "build"
            THEN {Call(PulseBuilder_exit(W, Top), none)}
            ELSE IF Top.with = "scope"
            THEN {Call(wrapped_transform_exit(W, Top, kind), none) :
                      kind \in TransformKinds}
                 \cup {Call(inline_exit(W, Top), none)}
            ELSE {}
    IN  (IF exc = "none" THEN calls ELSE {}) \cup exits

RECURSIVE CompiledGates(_)
CompiledGates(compiled) ==
    IF compiled = <<>> THEN <<>>
    ELSE CompiledGates(SubSeq(compiled, 1, Len(compiled) - 1))
         \o compiled[Len(compiled)].circuit

\* In the call with result r that passed the gates `passed`, every gate
\* that was pending or passed is handed to the compiler once or is still
\* pending, never both and never twice, and nothing else is compiled.
CompiledOnce(r, passed) ==
    LET compiled == CompiledGates(r.compiled)
        before == UNION {GatesOf(builders[b].lazy) : b \in DOMAIN builders}
        after == UNION {GatesOf(r.bld[b].lazy) : b \in DOMAIN r.bld}
        pending == [b \in DOMAIN r.bld |-> Len(r.bld[b].lazy)]
    IN  /\ before \subseteq GatesOf(compiled) \cup after
        /\ GatesOf(compiled) \cup after \subseteq before \cup GatesOf(passed)
        /\ GatesOf(compiled) \cap after = {}
        /\ Cardinality(GatesOf(compiled)) = Len(compiled)
        /\ \A b \in DOMAIN r.bld :
               Cardinality(GatesOf(r.bld[b].lazy)) = Len(r.bld[b].lazy)
        /\ ~Raised(r) => GatesOf(passed) \subseteq GatesOf(compiled) \cup after

\* Builder b has an open build.
BuildOpen(b) ==
    \E i \in DOMAIN frames : frames[i].with = "build" /\ frames[i].b = b

\* C32: whatever call is made, each pending or passed gate is handed to
\* the compiler exactly once or stays pending; and when a build exits, no
\* gate is left pending in the buffer of a builder whose build has exited.
C32_CompiledExactlyOnce ==
    [][/\ \A c \in NextCalls : CompiledOnce(c.r, c.passed)
       /\ BuildExitStep
              => \A b \in DOMAIN builders' :
                     BuildOpen(b)' \/ builders'[b].lazy = <<>>]_vars


\* The circuits handed to the compiler in a call, in the order of the
\* invocations.
CompiledCircuits(r) ==
    [i \in DOMAIN r.compiled |-> r.compiled[i].circuit]

\* The buffers of the builders other than b are as they were.
OtherBuffersKept(r, b) ==
    \A o \in DOMAIN builders : o # b => r.bld[o].lazy = builders[o].lazy

\* A lazy gate call on builder b joins the pending circuit at its end and
\* compiles nothing.
LazyJoins(r, b, circ) ==
    ~Raised(r) =>
        /\ r.compiled = <<>>
        /\ r.bld[b].lazy = builders[b].lazy \o circ
        /\ OtherBuffersKept(r, b)

\* A flush boundary on builder b hands the whole pending circuit of b, when
\* there is one, to the compiler in one invocation and leaves nothing
\* pending, unless the call failed before it reached the flush.
FlushesWhole(r, b) ==
    LET before == builders[b].lazy
    IN  /\ OtherBuffersKept(r, b)
        /\ \A i \in DOMAIN r.compiled : r.compiled[i].builder = b
        /\ \/ /\ r.bld[b].lazy = <<>>
              /\ CompiledCircuits(r) =
                     IF before = <<>> THEN <<>> ELSE <<before>>
           \/ /\ Raised(r)
              /\ r.exc # "CompilerError"
              /\ r.compiled = <<>>
              /\ r.bld[b].lazy = before

\* A gate called with lazy=False is compiled alone, after the pending
\* circuit.
EagerAlone(r, b, circ) ==
    LET before == builders[b].lazy
        pending == IF before = <<>> THEN <<>> ELSE <<before>>
    IN  /\ OtherBuffersKept(r, b)
        /\ ~Raised(r) =>
               /\ CompiledCircuits(r) = pending \o <<circ>>
               /\ r.bld[b].lazy = <<>>
        /\ Raised(r) =>
               \/ CompiledCircuits(r) = pending \o <<circ>>
               \/ CompiledCircuits(r) = pending /\ before # <<>>
               \/ r.compiled = <<>> /\ r.exc # "CompilerError"

\* The flush boundaries the program can reach next, each with the builder
\* it acts on: DSL calls on the active builder, and the exit of the
\* innermost open `with` on the builder that `with` holds.
BoundaryCalls ==
    LET At(r, b) == [r |-> r, b |-> b]
        cv == BUILDER_CONTEXTVAR
        calls ==
            {At(play(W, serial + 1), cv),
             At(call_schedule(W, <<CalledSchedule(serial + 1)>>), cv),
             At(wrapped_transform_enter(W), cv),
             At(transpiler_settings_enter(W, "optimization_level=3"), cv),
             At(circuit_scheduler_settings_enter(W, "method=alap"), cv)}
        exits ==
            IF frames = <<>> THEN {}
            ELSE IF Top.with = "build"
            THEN {At(PulseBuilder_exit(W, Top), Top.b)}
            ELSE IF Top.with = "scope"
            THEN {At(wrapped_transform_exit(W, Top, kind), Top.b) :
                      kind \in TransformKinds}
                 \cup {At(inline_exit(W, Top), Top.b)}
            ELSE IF Top.with = "transpiler_settings"
            THEN {At(transpiler_settings_exit(W, Top), Top.b)}
            ELSE {At(circuit_scheduler_settings_exit(W, Top), Top.b)}
    IN  (IF exc = "none" /\ cv # NoBuilder THEN calls ELSE {}) \cup exits

\* C33: on every builder, a lazy gate call joins the pending circuit at its
\* end and compiles nothing; every flush boundary (raw instruction, schedule
\* call, scope entry or exit, settings change, build exit) hands the whole
\* pending circuit to the compiler in one invocation and leaves nothing
\* pending; a gate called eagerly is compiled alone.  So the gates of one
\* invocation are the lazy calls since the last boundary, in call order.
C33_LazyGatesBatched ==
    /\ \A c \in BoundaryCalls : FlushesWhole(c.r, c.b)
    /\ exc = "none" /\ BUILDER_CONTEXTVAR # NoBuilder =>
           \A g \in GateKinds :
               LET circ == Circuit(g, serial + 1)
               IN  /\ LazyJoins(call_gate(W, circ, TRUE),
                                BUILDER_CONTEXTVAR, circ)
                   /\ EagerAlone(call_gate(W, circ, FALSE),
                                 BUILDER_CONTEXTVAR, circ)

\* Two gates called one after the other were compiled in one circuit, and a
\* gate called after an instruction in another one.
C33_Witness ==
    \E k \in DOMAIN blocks :
        \E i, j \in DOMAIN blocks[k] :
            /\ i < j
            /\ blocks[k][i].op = "circuit"
            /\ blocks[k][j].op = "circuit"
            /\ Len(blocks[k][i].gates) = 2
            /\ blocks[k][i].gates[2] = blocks[k][i].gates[1] + 1


SettingsExitStep ==
    /\ frames # <<>>
    /\ Top.with \in {"transpiler_settings", "circuit_scheduler_settings"}
    /\ frames' = Pop

\* The settings of builder b in the world w.
SettingsOf(w, b) ==
    [transpiler_settings |-> w.bld[b].transpiler_settings,
     circuit_scheduler_settings |-> w.bld[b].circuit_scheduler_settings]

\* Every invocation of the compiler in the call with result r was given
\* the settings builder b had before the call.
CompiledUnderOld(r, b) ==
    \A i \in DOMAIN r.compiled :
        /\ r.compiled[i].builder = b
        /\ r.compiled[i].transpiler_settings
               = builders[b].transpiler_settings
        /\ r.compiled[i].circuit_scheduler_settings
               = builders[b].circuit_scheduler_settings

\* The settings changes the program can make next.
SettingsCalls ==
    LET At(r, b) == [r |-> r, b |-> b]
        cv == BUILDER_CONTEXTVAR
    IN  (IF exc = "none" /\ cv # NoBuilder
         THEN {At(transpiler_settings_enter(W, "optimization_level=3"), cv),
               At(circuit_scheduler_settings_enter(W, "method=alap"), cv)}
         ELSE {})
        \cup (IF frames = <<>> THEN {}
              ELSE IF Top.with = "transpiler_settings"
              THEN {At(transpiler_settings_exit(W, Top), Top.b)}
              ELSE IF Top.with = "circuit_scheduler_settings"
              THEN {At(circuit_scheduler_settings_exit(W, Top), Top.b)}
              ELSE {})

\* C34: a settings change compiles the pending gates under the settings
\* that were active before it, and when a transpiler_settings or
\* circuit_scheduler_settings scope is left, also after its body raised,
\* its builder has the settings again that were active at its entry.
C34_SettingsScoped ==
    [][/\ \A c \in SettingsCalls :
              FlushesWhole(c.r, c.b) /\ CompiledUnderOld(c.r, c.b)
       /\ SettingsExitStep =>
              IF Top.with = "transpiler_settings"
              THEN builders'[Top.b].transpiler_settings = Top.curr
              ELSE builders'[Top.b].circuit_scheduler_settings = Top.curr]_vars


\* How many times the instruction with serial number n occurs among the
\* leaves of a schedule.
Occurrences(schedule, n) ==
    Cardinality({j \in DOMAIN schedule : schedule[j].n = n})

\* The serial numbers of the instructions the blocks hold: what the DSL
\* calls, the flushes and the scope exits have appended so far.
AppendedThroughDSL ==
    UNION {{blocks[k][i].n : i \in DOMAIN blocks[k]} : k \in DOMAIN blocks}

\* C35: no step other than the exit of a build changes the root schedule of
\* any builder; the exit of a build that completes without an exception
\* leaves the root schedule starting with its previous content and the
\* active block empty; and when it is the exit of the only build of the
\* program, every instruction appended through the DSL occurs exactly once
\* in the root schedule.
C35_RootScheduleAtExit ==
    [][/\ ~BuildExitStep =>
              \A b \in DOMAIN builders :
                  builders'[b].schedule = builders[b].schedule
       /\ BuildExitStep /\ exc' = "none" =>
              LET b == Top.b
                  before == builders[b].schedule
                  after == builders'[b].schedule
              IN  /\ Len(after) >= Len(before)
                  /\ SubSeq(after, 1, Len(before)) = before
                  /\ blocks'[builders'[b].block] = <<>>
                  /\ Len(builders) = 1 =>
                         \A n \in AppendedThroughDSL :
                             Occurrences(after, n) = 1]_vars


\* The instructions of the target schedule, in append order.
TargetOrder ==
    [i \in DOMAIN target |-> target[i].n]

\* C37: once the builds of context.py have exited, the target schedule
\* holds every instruction issued in them exactly once, in the order they
\* were issued: what came before a barrier scope, then what came inside it,
\* then what came after it.
C37_ContextBatchesInOrder ==
    ctx_frames = <<>> => TargetOrder = [i \in 1..issued |-> i]


\* The acquires of a schedule, by their place in it.
AcquirePlaces(schedule) ==
    {i \in DOMAIN schedule.instructions :
         schedule.instructions[i][2].kind = "acquire"}

\* The qubits a schedule acquires at the start and with the duration of its
\* acquire at place i, and those it acquires at that start with any
\* duration.
OwnGroup(schedule, i) ==
    {schedule.instructions[j][2].index :
         j \in {k \in AcquirePlaces(schedule) :
                    /\ schedule.instructions[k][1]
                           = schedule.instructions[i][1]
                    /\ schedule.instructions[k][2].duration
                           = schedule.instructions[i][2].duration}}

SameStart(schedule, i) ==
    {schedule.instructions[j][2].index :
         j \in {k \in AcquirePlaces(schedule) :
                    schedule.instructions[k][1]
                        = schedule.instructions[i][1]}}

\* C36: under a measurement map, an acquire of a qubit of a device set is
\* validated against the acquires of its own start time and duration only:
\* when these do not hold the whole set the lowering is refused, also when
\* acquires of another duration at the same start hold the missing qubits.
C36_GroupsByStartAndDuration ==
    (LoweredByLowerQobj /\ lowered.args[1].meas_map # <<>>
         /\ lowered.args[1].los = <<>>)
        => \A n \in DOMAIN lowered.args[1].schedules :
               LET schedule == lowered.args[1].schedules[n]
               IN  \A i \in AcquirePlaces(schedule) :
                       \A M \in lowered.args[1].meas_map[1] :
                           (/\ schedule.instructions[i][2].index \in M
                            /\ ~(M \subseteq OwnGroup(schedule, i)))
                               => /\ lowered.err = "CompilerError"
                                  /\ lowered.job = <<>>

\* Qubits 0 and 1 were acquired at the same start with different durations
\* under the map {{0, 1}}, and the lowering was refused.
C36_Witness ==
    /\ LoweredByLowerQobj
    /\ lowered.args[1].meas_map = <<{{0, 1}}>>
    /\ lowered.err = "CompilerError"
    /\ LET schedule == lowered.args[1].schedules[1]
       IN  \E i \in AcquirePlaces(schedule) :
               /\ OwnGroup(schedule, i) = {0}
               /\ SameStart(schedule, i) = {0, 1}
               /\ \A j \in AcquirePlaces(schedule) :
                      SameStart(schedule, j) = {0, 1}


\* The instructions of an experiment that stand for operations of the
\* circuit, by their place.
OperationPlaces(instrs) ==
    {i \in DOMAIN instrs : instrs[i].name # "bfunc"}

\* C38: in every lowered circuit the register a bfunc writes and the
\* conditional of every conditioned instruction are at least the
\* memory_slots of the experiment, every register index of a measure is
\* below it, and two conditioned instructions never have the same
\* conditional.
C38_SlotsDoNotAlias ==
    AssembledCircuits =>
        \A c \in DOMAIN QasmQobj.experiments :
            LET instrs == QasmQobj.experiments[c].instructions
                slots == QasmQobj.experiments[c].header.memory_slots
            IN  /\ \A i \in DOMAIN instrs \ OperationPlaces(instrs) :
                       instrs[i].register >= slots
                /\ \A i \in OperationPlaces(instrs) :
                       /\ \A k \in DOMAIN instrs[i].conditional :
                              instrs[i].conditional[k] >= slots
                       /\ \A k \in DOMAIN instrs[i].register :
                              instrs[i].register[k] < slots
                /\ \A i, j \in OperationPlaces(instrs) :
                       (/\ i # j
                        /\ instrs[i].conditional # <<>>
                        /\ instrs[j].conditional # <<>>)
                           => instrs[i].conditional # instrs[j].conditional

\* A circuit with two registers was lowered that measures into a register
\* and has two conditioned instructions.
C38_Witness ==
    /\ AssembledCircuits
    /\ \E c \in DOMAIN QasmQobj.experiments :
           LET instrs == QasmQobj.experiments[c].instructions
           IN  /\ Len(AssembledBatch[c].cregs) = 2
               /\ \E i \in OperationPlaces(instrs) :
                      instrs[i].register # <<>>
               /\ \E i, j \in OperationPlaces(instrs) :
                      /\ i # j
                      /\ instrs[i].conditional # <<>>
                      /\ instrs[j].conditional # <<>>


\* The positions of the ones of a number below 2^8.
SetBits(number) ==
    {k \in 0..7 : (number \div 2^k) % 2 = 1}

\* C39: in every bfunc the ones of val are among the ones of mask, whatever
\* the value of the condition: the bits of a value that lie beyond the
\* width of its register are in neither.
C39_ValWithinMask ==
    AssembledCircuits =>
        \A c \in DOMAIN AssembledBatch :
            \A i \in DOMAIN AssembledBatch[c].data :
                Conditioned(AssembledBatch[c], i) =>
                    LET control == AssembledBatch[c].data[i].control[1]
                        cregs == AssembledBatch[c].cregs
                        above == RegisterOffset(cregs, control.register)
                                 + RegisterSize(cregs, control.register)
                        bfunc == BfuncOf(c, i)
                    IN  /\ SetBits(parse_hex(bfunc.val))
                               \subseteq SetBits(parse_hex(bfunc.mask))
                        /\ \A k \in SetBits(parse_hex(bfunc.val)) : k < above

\* The condition a == 5 on the register a of two bits was lowered without
\* an error: val 0x1 under the mask 0x3, the bit 2 of the value dropped.
C39_Witness ==
    /\ AssembledCircuits
    /\ lowered.err = "none"
    /\ \E c \in DOMAIN AssembledBatch :
           \E i \in DOMAIN AssembledBatch[c].data :
               /\ Conditioned(AssembledBatch[c], i)
               /\ AssembledBatch[c].data[i].control[1]
                      = [register |-> "a", value |-> 5]
               /\ BfuncOf(c, i).mask = <<"0", "x", "3">>
               /\ BfuncOf(c, i).val = <<"0", "x", "1">>

====
